---- MODULE Spec2Model ----
(***************************************************************************)
(* A model of IoSqliteServer (src/unnamed/part_002), the facade that maps  *)
(* typed JSON tables onto one in-memory SQLite connection opened through   *)
(* node:sqlite's DatabaseSync.                                             *)
(*                                                                         *)
(* The connection is modelled by what SQLite and node:sqlite do:           *)
(*   - a prepared statement binds the anonymous parameters it is given to  *)
(*     its first placeholders and leaves the other placeholders NULL;      *)
(*   - StatementSync.all() returns an array of row objects keyed by the    *)
(*     column names of the result (Record<string, SQLOutputValue>[], the   *)
(*     type _convertToReturn declares for its argument), whose values are  *)
(*     null, numbers or texts, never arrays;                               *)
(*   - a statement that fails throws, and the exception leaves the facade  *)
(*     method unless the method catches it;                                *)
(*   - the text of a statement is parsed as SQLite parses it: a text       *)
(*     literal ends at the first quote character that is not doubled, AND  *)
(*     binds tighter than OR, and a comparison converts its operands by    *)
(*     the affinity of the column it names.                                *)
(* The statement texts come from SqlStatements (./sql-statements.ts), which*)
(* is not part of the sources at hand: they are modelled from the          *)
(* QueryTranslator section of the specification. IoTools and               *)
(* IoDbNameMapping (@rljson/io) are modelled from the SchemaRegistry and   *)
(* NameMapper sections.                                                    *)
(***************************************************************************)
EXTENDS Integers, Sequences, FiniteSets, TLC

VARIABLES
  conn,      \* this.db: "none" before init, then "open" or "closed"
  isOpenFlag,\* this._isOpen
  ready,     \* this._isReady has been resolved
  db,        \* content of the connection: physical table name -> table
  calls,     \* per caller, the call it has in flight or made last
  codec,     \* a row on its way through _serializeRow and _parseData
  sql,       \* the statement the facade built last, and the answer to it
  node,      \* a NodeSQLite instance: its fields and its connection
  opened     \* the connections the facade has opened and not closed

vars == <<conn, isOpenFlag, ready, db, calls, codec, sql, node, opened>>

(***************************************************************************)
(* Bounds of the model.                                                    *)
(***************************************************************************)
\* createOrExtendTable is explored while the registry holds at most this
\* many rows.
MaxRegistryRows == 4

MaxConnections == 2

(***************************************************************************)
(* Values.  A value is a record [t, v]: t names the kind, v the content.   *)
(*   JSON side:  str, num, bool, obj (object or array, v its JSON text),   *)
(*               cols (the array of a config's column configs), hash (the  *)
(*               string hsh/hip computes, v the hashed content)            *)
(*   SQL side:   null, num, and the texts str, hash, jtext (the text       *)
(*               JSON.stringify makes of v), joined (the text              *)
(*               Array.join(', ') makes of the values v), text (a text     *)
(*               literal of a statement that is no single string of the    *)
(*               model, v its stretches and quote characters)              *)
(***************************************************************************)
NULL == [t |-> "null", v |-> 0]
Num(n) == [t |-> "num", v |-> n]
Str(s) == [t |-> "str", v |-> s]
Bool(b) == [t |-> "bool", v |-> b]
Obj(s) == [t |-> "obj", v |-> s]
ColsVal(c) == [t |-> "cols", v |-> c]
HashVal(c) == [t |-> "hash", v |-> c]
JText(j) == [t |-> "jtext", v |-> j]
Joined(vs) == [t |-> "joined", v |-> vs]
Thrown(e) == [t |-> "throw", v |-> e]

Range(s) == {s[i] : i \in DOMAIN s}

IndexOf(s, x) == CHOOSE i \in DOMAIN s : s[i] = x

\* the last index at which s holds x
LastIndexOf(s, x) ==
  CHOOSE i \in DOMAIN s : s[i] = x /\ \A j \in DOMAIN s : s[j] = x => j <= i

\* typeof value === 'object' for a non-null value
IsObject(val) == val.t \in {"obj", "cols"}

\* Array.isArray(x) of a value that came out of SQLite: a SQLOutputValue is
\* null, a number, a bigint, a string or a Uint8Array
IsArray(val) == val.t = "array"

(***************************************************************************)
(* Statement texts.  A text is the sequence of its pieces: a piece is      *)
(* either fixed SQL or an identifier, Sql(s), or a value that was          *)
(* interpolated into the template string.                                  *)
(***************************************************************************)
Sql(s) == [t |-> "sql", v |-> s]

\* The characters of a JavaScript string, cut at its quote characters ('):
\* the stretches between the quotes as texts, and Sql("'") for each quote.
\* The strings of the model that hold a quote are listed; every other
\* string is one stretch, and the empty string none.
Characters(s) ==
  CASE s = "" -> <<>>
    [] s = "o'k" -> <<Str("o"), Sql("'"), Str("k")>>
    [] s = "x' OR '1'='1" ->
         <<Str("x"), Sql("'"), Str(" OR "), Sql("'"), Str("1"), Sql("'"),
           Str("="), Sql("'"), Str("1")>>
    [] OTHER -> <<Str(s)>>

(***************************************************************************)
(* Column and table configs.                                               *)
(***************************************************************************)
Col(k, ty) == [key |-> k, type |-> ty]

HashCol == Col("_hash", "string")

\* The column lists createOrExtendTable is called with: a base list, the
\* base list extended by one column, the base list with its column
\* replaced, and the base list with its column retyped.
ColumnLists ==
  {<<HashCol, Col("a", "number")>>,
   <<HashCol, Col("a", "number"), Col("b", "string")>>,
   <<HashCol, Col("b", "string")>>,
   <<HashCol, Col("a", "string")>>}

UserTables == {"users", "items"}

TableCfgs == [key : UserTables, type : {"components"}, columns : ColumnLists]

NoCfg == [key |-> "", type |-> "", columns |-> <<>>]

\* IoTools.tableCfgsTableCfg: the config of the registry table itself
tableCfgsTableCfg ==
  [key |-> "tableCfgs", type |-> "tableCfgs",
   columns |-> <<HashCol, Col("key", "string"), Col("type", "string"),
                 Col("columns", "jsonArray")>>]

\* the config IoTools.initRevisionsTable registers
revisionsTableCfg ==
  [key |-> "revisions", type |-> "revisions",
   columns |-> <<HashCol, Col("table", "string")>>]

(***************************************************************************)
(* IoDbNameMapping: logical keys to physical identifiers and back.         *)
(***************************************************************************)
addTableSuffix(k) ==
  CASE k = "tableCfgs" -> "tableCfgs_tbl"
    [] k = "revisions" -> "revisions_tbl"
    [] k = "users" -> "users_tbl"
    [] k = "items" -> "items_tbl"
    [] OTHER -> "other_tbl"

addColumnSuffix(k) ==
  CASE k = "_hash" -> "_hash_col"
    [] k = "key" -> "key_col"
    [] k = "type" -> "type_col"
    [] k = "columns" -> "columns_col"
    [] k = "table" -> "table_col"
    [] k = "a" -> "a_col"
    [] k = "b" -> "b_col"
    [] k = "title" -> "title_col"
    [] k = "count" -> "count_col"
    [] k = "done" -> "done_col"
    [] k = "meta" -> "meta_col"
    [] k = "tags" -> "tags_col"
    [] k = "extra" -> "extra_col"
    [] OTHER -> "other_col"

PhysTables ==
  {addTableSuffix(k) : k \in {"tableCfgs", "revisions"} \cup UserTables}
    \cup {"other_tbl"}

PhysCols(cfg) == [i \in DOMAIN cfg.columns |-> addColumnSuffix(cfg.columns[i].key)]

(***************************************************************************)
(* hsh / hip (@rljson/hash): the hash is a function of the content without *)
(* the _hash field.                                                        *)
(***************************************************************************)
WithoutHash(json) == [k \in (DOMAIN json) \ {"_hash"} |-> json[k]]

hsh(json) ==
  [k \in (DOMAIN json) \cup {"_hash"} |->
     IF k = "_hash" THEN HashVal(WithoutHash(json)) ELSE json[k]]

\* a table config as the JSON object that is hashed and serialized
CfgJson(cfg) ==
  [key |-> Str(cfg.key), type |-> Str(cfg.type), columns |-> ColsVal(cfg.columns)]

(***************************************************************************)
(* The connection: SQLite statements as node:sqlite executes them.  A      *)
(* statement returns [err, db]: err = "" when it ran, otherwise the        *)
(* message of the exception it throws, and db the content afterwards.      *)
(***************************************************************************)
\* A table holds its column names, the affinity of each column, and its
\* rows.
NoTable == [exists |-> FALSE, cols |-> <<>>, types |-> <<>>, rows |-> <<>>]

EmptyDb == [p \in PhysTables |-> NoTable]

Ran(d) == [err |-> "", db |-> d]

Threw(e, d) == [err |-> e, db |-> d]

\* every table's primary key is its _hash column
PkCol == "_hash_col"

\* The affinity of the column CREATE TABLE and ADD COLUMN declare for a
\* column config: texts for strings and serialized JSON, numbers for numbers
\* and for booleans (stored as 0 or 1); a type outside the five gets none.
ColumnAffinity(type) ==
  CASE type \in {"string", "json", "jsonArray"} -> "TEXT"
    [] type \in {"number", "boolean"} -> "NUMERIC"
    [] OTHER -> "BLOB"

\* SQLite applies an affinity to a value: a column of numeric affinity
\* turns a text that is a numeral into the number, a column of text
\* affinity turns a number into its text, and every other value stays.
\* The numbers are whole; isReal tells a REAL from an INTEGER: the text of
\* the INTEGER 7 is '7' and the text of the REAL 7.0 is '7.0'.  The
\* numerals are those of the numbers 0 to 9.
ApplyAffinity(val, aff, isReal) ==
  LET Numerals == 0..9 IN
  IF aff = "NUMERIC" /\ val.t = "str" /\ (\E n \in Numerals : ToString(n) = val.v)
  THEN Num(CHOOSE n \in Numerals : ToString(n) = val.v)
  ELSE IF aff = "TEXT" /\ val.t = "num"
  THEN Str(IF isReal THEN ToString(val.v) \o ".0" ELSE ToString(val.v))
  ELSE val

\* the row an INSERT stores: the i-th listed column gets the i-th bound
\* parameter, or NULL when fewer parameters were bound; unlisted columns
\* are NULL.  node:sqlite binds a JavaScript number as a REAL.
BoundRow(tbl, pcols, params) ==
  [c \in Range(tbl.cols) |->
     IF c \in Range(pcols) /\ IndexOf(pcols, c) <= Len(params)
     THEN ApplyAffinity(params[IndexOf(pcols, c)],
                        tbl.types[IndexOf(tbl.cols, c)], TRUE)
     ELSE NULL]

PkCollides(tbl, row) ==
  /\ PkCol \in DOMAIN row
  /\ row[PkCol] # NULL
  /\ \E i \in DOMAIN tbl.rows : tbl.rows[i][PkCol] = row[PkCol]

\* db.prepare(INSERT [OR IGNORE] INTO ptbl (pcols) VALUES (?, ...)).run(...params)
ExecInsert(d, ptbl, pcols, params, orIgnore) ==
  LET tbl == d[ptbl] IN
  IF ~tbl.exists THEN Threw("no such table", d)
  ELSE IF ~(Range(pcols) \subseteq Range(tbl.cols)) THEN Threw("no such column", d)
  ELSE IF Len(params) > Len(pcols) THEN Threw("column index out of range", d)
  ELSE LET row == BoundRow(tbl, pcols, params) IN
       IF PkCollides(tbl, row)
       THEN IF orIgnore THEN Ran(d) ELSE Threw("SQLITE_CONSTRAINT_PRIMARYKEY", d)
       ELSE Ran([d EXCEPT ![ptbl].rows = Append(@, row)])

\* db.exec(CREATE TABLE ptbl (...)): the statement of
\* SqlStatements.createTable, one column per column config
ExecCreateTable(d, ptbl, columns) ==
  IF d[ptbl].exists THEN Threw("table already exists", d)
  ELSE IF \E i, j \in DOMAIN columns : i < j /\ columns[i].key = columns[j].key
  THEN Threw("duplicate column name", d)
  ELSE Ran([d EXCEPT ![ptbl] =
             [exists |-> TRUE,
              cols |-> [i \in DOMAIN columns |-> addColumnSuffix(columns[i].key)],
              types |-> [i \in DOMAIN columns |-> ColumnAffinity(columns[i].type)],
              rows |-> <<>>]])

\* db.prepare(ALTER TABLE ptbl ADD COLUMN ...).run() for one column config
ExecAddColumn(d, ptbl, column) ==
  LET tbl == d[ptbl]
      pcol == addColumnSuffix(column.key)
  IN
  IF ~tbl.exists THEN Threw("no such table", d)
  ELSE IF pcol \in Range(tbl.cols) THEN Threw("duplicate column name", d)
  ELSE Ran([d EXCEPT ![ptbl] =
             [exists |-> TRUE,
              cols |-> Append(tbl.cols, pcol),
              types |-> Append(tbl.types, ColumnAffinity(column.type)),
              rows |-> [i \in DOMAIN tbl.rows |->
                          [c \in Range(tbl.cols) \cup {pcol} |->
                             IF c = pcol THEN NULL ELSE tbl.rows[i][c]]]]])

\* the rows of s that satisfy Keep(row), in order
RECURSIVE SelectRows(_, _)
SelectRows(rows, keep) ==
  IF rows = <<>> THEN <<>>
  ELSE IF keep[1]
       THEN <<rows[1]>> \o SelectRows(Tail(rows), Tail(keep))
       ELSE SelectRows(Tail(rows), Tail(keep))

\* db.prepare(SELECT pcols FROM ptbl).all(): one object per row, keyed by
\* the selected column names
QueryAll(d, ptbl, pcols) ==
  [i \in DOMAIN d[ptbl].rows |-> [c \in Range(pcols) |-> d[ptbl].rows[i][c]]]

\* db.prepare(SELECT * FROM ptbl WHERE pcol = ?).all(val)
MatchesEq(row, pcol, val) == row[pcol] # NULL /\ row[pcol] = val

QueryWhereEq(d, ptbl, pcol, val) ==
  LET rows == d[ptbl].rows IN
  SelectRows(rows, [i \in DOMAIN rows |-> MatchesEq(rows[i], pcol, val)])

(***************************************************************************)
(* A SELECT whose WHERE clause was written as text.  SQLite cuts the text  *)
(* into tokens, parses them, resolves the names and evaluates the          *)
(* expression for each row.  A token is [k, v]: an identifier "id", a      *)
(* number "num", a text literal "lit" (v the characters between its        *)
(* quotes), the operators "eq" and "isnull", the connectives "and" and     *)
(* "or", a literal the text ends in, "open", and a stretch that is no SQL, *)
(* "illegal".                                                              *)
(***************************************************************************)
\* the tokens of a stretch of text outside a literal
Words(chunk) ==
  IF chunk.t = "num" THEN <<[k |-> "num", v |-> chunk.v]>>
  ELSE IF chunk.t \notin {"sql", "str"} THEN <<[k |-> "illegal", v |-> 0]>>
  ELSE IF ApplyAffinity(Str(chunk.v), "NUMERIC", FALSE).t = "num"
  THEN <<[k |-> "num", v |-> ApplyAffinity(Str(chunk.v), "NUMERIC", FALSE).v]>>
  ELSE CASE chunk.v = " " -> <<>>
         [] chunk.v \in {" = ", "="} -> <<[k |-> "eq", v |-> 0]>>
         [] chunk.v = " AND " -> <<[k |-> "and", v |-> 0]>>
         [] chunk.v = " OR " -> <<[k |-> "or", v |-> 0]>>
         [] chunk.v = " IS NULL" -> <<[k |-> "isnull", v |-> 0]>>
         [] OTHER -> <<[k |-> "id", v |-> chunk.v]>>

\* The tokens of the characters chars.  A quote opens a literal; inside a
\* literal two quotes in a row are one quote character of its content, and
\* a single quote closes it.  content holds the characters of the literal
\* read so far.
RECURSIVE Tokens(_, _, _)
Tokens(chars, inLiteral, content) ==
  LET AsText(ch) == IF ch.t = "num" THEN Str(ToString(ch.v))
                    ELSE IF ch.t = "sql" THEN Str(ch.v)
                    ELSE ch
  IN IF chars = <<>>
     THEN IF inLiteral THEN <<[k |-> "open", v |-> 0]>> ELSE <<>>
     ELSE IF ~inLiteral
     THEN IF chars[1] = Sql("'") THEN Tokens(Tail(chars), TRUE, <<>>)
          ELSE Words(chars[1]) \o Tokens(Tail(chars), FALSE, <<>>)
     ELSE IF chars[1] # Sql("'")
     THEN Tokens(Tail(chars), TRUE, Append(content, AsText(chars[1])))
     ELSE IF Len(chars) >= 2 /\ chars[2] = Sql("'")
     THEN Tokens(SubSeq(chars, 3, Len(chars)), TRUE, Append(content, Sql("'")))
     ELSE <<[k |-> "lit", v |-> content]>> \o Tokens(Tail(chars), FALSE, <<>>)

\* The error prepare() throws for the tokens of a WHERE clause, "" when
\* they are an expression: operands joined by =, AND and OR, each operand
\* possibly followed by IS NULL.  needsOperand says that an operand has to
\* come next.
RECURSIVE SyntaxError(_, _)
SyntaxError(toks, needsOperand) ==
  IF toks = <<>> THEN (IF needsOperand THEN "incomplete input" ELSE "")
  ELSE IF toks[1].k \in {"open", "illegal"} THEN "unrecognized token"
  ELSE IF needsOperand
  THEN IF toks[1].k \in {"id", "num", "lit"}
       THEN SyntaxError(Tail(toks), FALSE)
       ELSE "syntax error"
  ELSE IF toks[1].k \in {"eq", "and", "or"} THEN SyntaxError(Tail(toks), TRUE)
  ELSE IF toks[1].k = "isnull" THEN SyntaxError(Tail(toks), FALSE)
  ELSE "syntax error"

\* the stretches of toks between the tokens of kind k
RECURSIVE SplitAt(_, _)
SplitAt(toks, k) ==
  IF toks = <<>> THEN << <<>> >>
  ELSE LET rest == SplitAt(Tail(toks), k) IN
       IF toks[1].k = k THEN << <<>> >> \o rest
       ELSE << <<toks[1]>> \o rest[1] >> \o Tail(rest)

\* the text value whose characters are chars: a text of the model when it
\* is one stretch, otherwise the sequence of its stretches and quotes
TextValue(chars) ==
  IF chars = <<>> THEN Str("")
  ELSE IF Len(chars) = 1 /\ chars[1] # Sql("'") THEN chars[1]
  ELSE [t |-> "text", v |-> chars]

\* x = y for two operands [val, aff]: the affinity of a column is applied
\* to the other operand (numeric affinity to every operand that has none
\* or another, text affinity to an operand without affinity), a NULL
\* operand gives NULL, and a number never equals a text
SqlEquals(x, y) ==
  LET Converted(a, b) ==
        IF b.aff = "NUMERIC" /\ a.aff # "NUMERIC"
        THEN ApplyAffinity(a.val, "NUMERIC", FALSE)
        ELSE IF b.aff = "TEXT" /\ a.aff = "NONE"
        THEN ApplyAffinity(a.val, "TEXT", FALSE)
        ELSE a.val
      Text(v) == IF v.t = "str" THEN TextValue(Characters(v.v)) ELSE v
      xv == Converted(x, y)
      yv == Converted(y, x)
  IN IF xv = NULL \/ yv = NULL THEN NULL
     ELSE IF Text(xv) = Text(yv) THEN Num(1)
     ELSE Num(0)

\* The value and the affinity of an operand with the = and IS NULL that
\* follow it, evaluated from left to right for one row: a column reference
\* has the column's affinity, a literal and a result have none.
RECURSIVE Operand(_, _, _)
Operand(toks, tbl, row) ==
  LET n == Len(toks)
      last == toks[n]
  IN IF last.k = "isnull"
     THEN [val |-> IF Operand(SubSeq(toks, 1, n - 1), tbl, row).val = NULL
                   THEN Num(1) ELSE Num(0),
           aff |-> "NONE"]
     ELSE IF n > 1
     THEN [val |-> SqlEquals(Operand(SubSeq(toks, 1, n - 2), tbl, row),
                             Operand(<<last>>, tbl, row)),
           aff |-> "NONE"]
     ELSE IF last.k = "id"
     THEN [val |-> row[last.v], aff |-> tbl.types[IndexOf(tbl.cols, last.v)]]
     ELSE IF last.k = "num" THEN [val |-> Num(last.v), aff |-> "NONE"]
     ELSE [val |-> TextValue(last.v), aff |-> "NONE"]

\* the WHERE clause keeps the row: one of the stretches between the ORs
\* has only operands that are true, a value being true when its number is
\* not 0
WhereHolds(toks, tbl, row) ==
  LET True(val) == LET n == ApplyAffinity(val, "NUMERIC", FALSE) IN
                   n.t = "num" /\ n.v # 0
      ors == SplitAt(toks, "or")
  IN \E g \in DOMAIN ors :
       \A a \in DOMAIN SplitAt(ors[g], "and") :
         True(Operand(SplitAt(ors[g], "and")[a], tbl, row).val)

\* db.prepare(text).all() for a text "SELECT * FROM <table> WHERE<where>":
\* [err, rows], err the message of the exception prepare throws for a text
\* that is no statement, for a table that does not exist or for a name that
\* is no column, rows the row objects of the rows the clause keeps
QueryWhere(d, text) ==
  LET tbl == d[text[2].v]
      where == SubSeq(text, 4, Len(text))
      chars == [i \in DOMAIN where |->
                  IF where[i].t = "str" THEN Characters(where[i].v)
                  ELSE <<where[i]>>]
      Flat[i \in 0..Len(chars)] == IF i = 0 THEN <<>> ELSE Flat[i - 1] \o chars[i]
      toks == Tokens(Flat[Len(chars)], FALSE, <<>>)
      names == {toks[i].v : i \in {j \in DOMAIN toks : toks[j].k = "id"}}
  IN IF SyntaxError(toks, TRUE) # ""
     THEN [err |-> SyntaxError(toks, TRUE), rows |-> <<>>]
     ELSE IF ~tbl.exists THEN [err |-> "no such table", rows |-> <<>>]
     ELSE IF ~(names \subseteq Range(tbl.cols))
     THEN [err |-> "no such column", rows |-> <<>>]
     ELSE [err |-> "",
           rows |-> SelectRows(tbl.rows,
                               [i \in DOMAIN tbl.rows |->
                                  WhereHolds(toks, tbl, tbl.rows[i])])]

(***************************************************************************)
(* Codec: _serializeRow, _convertToReturn, _parseData.                     *)
(***************************************************************************)
\* one value of _serializeRow: objects and arrays are stringified, booleans
\* become 1 or 0, everything else is passed on as it is
SerializeValue(val) ==
  IF val # NULL /\ IsObject(val) THEN JText(val)
  ELSE IF val.t = "bool" THEN (IF val.v THEN Num(1) ELSE Num(0))
  ELSE val

\* a key the row does not hold gives null: rowAsJson[key] ?? null
_serializeRow(rowAsJson, tableCfg) ==
  [i \in DOMAIN tableCfg.columns |->
     SerializeValue(IF tableCfg.columns[i].key \in DOMAIN rowAsJson
                    THEN rowAsJson[tableCfg.columns[i].key]
                    ELSE NULL)]

\* the objects built from resultSet[0].columns and resultSet[0].values:
\* the columns are assigned in order, so that of a name the array holds
\* more than once the last value stays
RowsOfValues(columns, rows) ==
  [i \in DOMAIN rows |->
     [c \in Range(columns) |-> rows[i][LastIndexOf(columns, c)]]]

\* resultSet is what StatementSync.all() returned: row objects keyed by
\* column name.  The function reads the properties "values" and "columns"
\* of the first row object and returns [] unless both are arrays.
_convertToReturn(resultSet) ==
  IF resultSet = <<>> THEN <<>>
  ELSE LET first == resultSet[1] IN
       IF /\ "values" \in DOMAIN first
          /\ "columns" \in DOMAIN first
          /\ IsArray(first["values"])
          /\ IsArray(first["columns"])
       THEN RowsOfValues(first["columns"].v, first["values"].v)
       ELSE <<>>

\* JSON.parse(val as string) of a value read from a column.  The text of
\* a serialized object or array gives the object or array.  Of the other
\* texts a column can hold, a numeral gives the number, "null" gives null,
\* "true" and "false" give the boolean, and a text that is no JSON text
\* makes JSON.parse throw a SyntaxError.  A number is converted to its
\* numeral first.  The numerals are those of the numbers 0 to 9, written
\* as an INTEGER or as a REAL.
JsonParse(val) ==
  LET Numerals == 0..9
      NumeralOf(n) == {ToString(n), ToString(n) \o ".0"}
  IN IF val.t = "jtext" THEN val.v
     ELSE IF val.t = "num" THEN val
     ELSE IF val.t # "str" THEN Thrown("SyntaxError")
     ELSE IF \E n \in Numerals : val.v \in NumeralOf(n)
     THEN Num(CHOOSE n \in Numerals : val.v \in NumeralOf(n))
     ELSE IF val.v = "null" THEN NULL
     ELSE IF val.v \in {"true", "false"} THEN Bool(val.v = "true")
     ELSE Thrown("SyntaxError")

\* A variant of ParseValue that hands the stored text of a json or jsonArray
\* column on without parsing it; C19_CodecRoundTrip must tell it from
\* ParseValue.
ParseValueUnparsed(val, type) ==
  CASE type = "boolean" -> Bool(val # Num(0))
    [] type \in {"json", "jsonArray", "string", "number"} -> val
    [] OTHER -> Thrown("UnsupportedColumnType")

\* one value of _parseData, by the declared type of its column
ParseValue(val, type) ==
  CASE type = "boolean" -> Bool(val # Num(0))
    [] type \in {"json", "jsonArray"} -> JsonParse(val)
    [] type \in {"string", "number"} -> val
    [] OTHER -> Thrown("UnsupportedColumnType")

\* the loop of _parseData over the columns of the config, in their order:
\* a column whose value in the row object is undefined or null is skipped,
\* the value of every other column is converted by the column's type and
\* assigned to the column's key, replacing what an earlier column of the
\* same key assigned.  A conversion that throws ends the loop: the row is
\* then the thrown value under the key of the column.
RECURSIVE ParsedRow(_, _, _)
ParsedRow(row, columns, convertedRow) ==
  IF columns = <<>> THEN convertedRow
  ELSE LET key == columns[1].key
           keyWithSuffix == addColumnSuffix(key)
       IN IF keyWithSuffix \notin DOMAIN row \/ row[keyWithSuffix] = NULL
          THEN ParsedRow(row, Tail(columns), convertedRow)
          ELSE LET val == ParseValue(row[keyWithSuffix], columns[1].type) IN
               IF val.t = "throw" THEN [k \in {key} |-> val]
               ELSE ParsedRow(row, Tail(columns),
                              [k \in DOMAIN convertedRow \cup {key} |->
                                 IF k = key THEN val ELSE convertedRow[k]])

_parseData(data, tableCfg) ==
  [i \in DOMAIN data |->
     ParsedRow(data[i], tableCfg.columns, [k \in {} |-> NULL])]

\* _parseData threw while converting one of the rows
ParseThrew(rows) ==
  \E i \in DOMAIN rows : \E k \in DOMAIN rows[i] : rows[i][k].t = "throw"

\* IoTools.sortTableDataAndUpdateHash(table): the rows of the table are
\* put in the order of their hashes and the hash of the table is set.  The
\* rows of a result have different hashes, so the order is a function of
\* the set of the rows, which stands for the sorted rows.
sortTableDataAndUpdateHash(data) == Range(data)

(***************************************************************************)
(* The registry as the facade and IoTools read it.                         *)
(***************************************************************************)
RegistryTbl == addTableSuffix("tableCfgs")

\* rawTableCfgs(): all rows of the registry table, converted and decoded
rawTableCfgs(d) ==
  _parseData(_convertToReturn(QueryAll(d, RegistryTbl, d[RegistryTbl].cols)),
             tableCfgsTableCfg)

\* the config a decoded registry row describes
CfgOfRow(row) ==
  [key |-> row["key"].v, type |-> row["type"].v, columns |-> row["columns"].v]

IsCfgRowOf(row, tableKey) ==
  /\ {"key", "type", "columns"} \subseteq DOMAIN row
  /\ row["key"] = Str(tableKey)

\* IoTools.tableCfgOrNull: the latest registered config of the table
HasTableCfg(d, tableKey) ==
  \E i \in DOMAIN rawTableCfgs(d) : IsCfgRowOf(rawTableCfgs(d)[i], tableKey)

LatestCfgIndex(d, tableKey) ==
  CHOOSE i \in DOMAIN rawTableCfgs(d) :
    /\ IsCfgRowOf(rawTableCfgs(d)[i], tableKey)
    /\ \A j \in DOMAIN rawTableCfgs(d) :
         IsCfgRowOf(rawTableCfgs(d)[j], tableKey) => j <= i

tableCfgOrNull(d, tableKey) ==
  IF HasTableCfg(d, tableKey)
  THEN CfgOfRow(rawTableCfgs(d)[LatestCfgIndex(d, tableKey)])
  ELSE NoCfg

IsPrefix(s, t) == Len(s) <= Len(t) /\ \A i \in DOMAIN s : s[i] = t[i]

\* IoTools.throwWhenTableIsNotCompatible: "ok" or the error it throws
throwWhenTableIsNotCompatible(d, tableCfg) ==
  LET existing == tableCfgOrNull(d, tableCfg.key) IN
  IF existing = NoCfg THEN "ok"
  ELSE IF IsPrefix(existing.columns, tableCfg.columns) THEN "ok"
  ELSE "SchemaIncompatible"

\* _tableExists: the table exists physically
_tableExists(d, tableKey) == d[addTableSuffix(tableKey)].exists

\* IoTools.throwWhenTableDoesNotExist
throwWhenTableDoesNotExist(d, tableKey) ==
  IF _tableExists(d, tableKey) THEN "ok" ELSE "TableNotFound"

\* IoTools.tableCfg: "ok" when the table has a registered config, otherwise
\* the error it throws
tableCfgError(d, tableKey) ==
  IF HasTableCfg(d, tableKey) THEN "ok" ELSE "TableNotFound"

(***************************************************************************)
(* A call of a facade method.  The async methods run on the single thread  *)
(* until they await; while a call awaits, a call of another caller may     *)
(* run.  An IoTools function reads the database when it is called, and the *)
(* call awaits its promise afterwards.                                     *)
(*                                                                         *)
(* A call record holds the request (op, table, cfg, data, where), the      *)
(* position pc, the locals that live across an await (tcfg: the config     *)
(* IoTools.tableCfg returned; rest: the tables write has still to iterate; *)
(* added: the columns _extendTable has still to add) and the outcome:      *)
(* result is "ok" or the error the call rejects with, set when pc becomes  *)
(* "done"; out the rows of the returned table; stmts the statements the    *)
(* call handed to the open connection for the tables, in order, the ones   *)
(* the connection rejected included (the reads of the registry and of      *)
(* sqlite_master left out); errs the row errors write collected; count the *)
(* number rowCount returns.  Two fields are history, kept for the          *)
(* properties while the call is in flight: after is, in a dumpTable call,  *)
(* the request of the write call its caller made right before it, and      *)
(* before is the content of the database when the call was made.           *)
(*                                                                         *)
(* Positions: "idle" (the caller has made no call), "start", "done", and   *)
(*   "awaitCheck"     createOrExtendTable awaits                           *)
(*                    throwWhenTableIsNotCompatible                        *)
(*   "createInsert"   the lookup found no registered row: _createTable is  *)
(*                    about to insert the config                           *)
(*   "createTable"    the config is inserted, CREATE TABLE comes next      *)
(*   "awaitCfg"       _extendTable awaits tableCfg, the insert of the new  *)
(*                    config comes next                                    *)
(*   "alter"          the config is inserted, the ALTER TABLE statements   *)
(*                    for the columns in added come next                   *)
(*   "awaitRevisions" init awaits initRevisionsTable, whose                *)
(*                    createOrExtendTable call has resolved                *)
(*   "awaitExists"    the call awaits throwWhenTableDoesNotExist or        *)
(*                    throwWhenTablesDoNotExist                            *)
(*   "awaitColumns"   readRows awaits throwWhenColumnDoesNotExist          *)
(*   "awaitMatch"     write awaits throwWhenTableDataDoesNotMatchCfg       *)
(*   "awaitTableCfg"  the call awaits tableCfg                             *)
(*   "awaitTable"     write awaits the callback of the table it has        *)
(*                    inserted the rows of                                 *)
(* From "createInsert", "createTable" and "alter" the call runs on without *)
(* awaiting, so no other call runs in between.                             *)
(***************************************************************************)
Stmt(kind, ptbl) == [k |-> kind, tbl |-> ptbl]

NoCall ==
  [pc |-> "idle", op |-> "new", table |-> "", cfg |-> NoCfg, data |-> <<>>,
   where |-> <<>>, after |-> <<>>, before |-> EmptyDb, tcfg |-> NoCfg,
   rest |-> <<>>,
   added |-> <<>>, result |-> "", out |-> {}, stmts |-> <<>>, errs |-> <<>>,
   count |-> 0]

\* a method has been called with the request
NewCall(d, op, table, cfg, data, where) ==
  [NoCall EXCEPT !.pc = "start", !.op = op, !.table = table, !.cfg = cfg,
                 !.data = data, !.where = where, !.before = d]

\* a block of a call has run: the call as it is now, and the database
Await(c, pc, d) == [c |-> [c EXCEPT !.pc = pc], db |-> d]

\* the call resolves ("ok") or rejects with an error
Settled(c, result, d) ==
  [c |-> [c EXCEPT !.pc = "done", !.result = result, !.before = EmptyDb,
                    !.after = <<>>],
   db |-> d]

\* what a use of the connection throws while no connection is open: before
\* init this._ioTools and this.db are undefined, after close the database
\* is closed
NotOpen(cn) == IF cn = "none" THEN "TypeError" ELSE "database is not open"

Issued(c, kind, ptbl) == [c EXCEPT !.stmts = Append(@, Stmt(kind, ptbl))]

(***************************************************************************)
(* createOrExtendTable                                                     *)
(***************************************************************************)
\* _insertTableCfg: the serialized values are joined into one string, and
\* that one string is the only parameter bound to the insert statement of
\* SqlStatements.insertTableCfg, which has one placeholder per registry
\* column
InsertTableCfgParams(tableCfgHashed) ==
  <<Joined(_serializeRow(tableCfgHashed, tableCfgsTableCfg))>>

_insertTableCfg(d, tableCfgHashed) ==
  ExecInsert(d, RegistryTbl, PhysCols(tableCfgsTableCfg),
             InsertTableCfgParams(hsh(tableCfgHashed)), FALSE)

\* the createOrExtendTable call has run to its end: it resolves, and inside
\* init the await of initRevisionsTable comes next
Finished(c, d) ==
  IF c.op = "init" THEN Await(c, "awaitRevisions", d) ELSE Settled(c, "ok", d)

\* _createTable, one statement at a time: insert the config, then CREATE
\* TABLE; a statement that throws rejects the call
_createTable(d, c) ==
  LET ptbl == addTableSuffix(c.cfg.key)
      ins == _insertTableCfg(d, hsh(CfgJson(c.cfg)))
      cr == ExecCreateTable(d, ptbl, c.cfg.columns)
  IN IF c.pc = "createInsert"
     THEN IF ins.err # ""
          THEN Settled(Issued(c, "INSERT_CFG", RegistryTbl), ins.err, ins.db)
          ELSE Await(Issued(c, "INSERT_CFG", RegistryTbl), "createTable", ins.db)
     ELSE IF cr.err # ""
          THEN Settled(Issued(c, "CREATE", ptbl), cr.err, cr.db)
          ELSE Finished(Issued(c, "CREATE", ptbl), cr.db)

\* the columns of newCols at an index beyond the old column count
AddedColumns(oldCols, newCols) ==
  IF Len(newCols) > Len(oldCols)
  THEN SubSeq(newCols, Len(oldCols) + 1, Len(newCols))
  ELSE <<>>

\* _extendTable from the await of tableCfg on, one statement at a time: it
\* returns when no column is added, otherwise it inserts the new config and
\* runs one ALTER TABLE ... ADD COLUMN for each added column
_extendTable(cn, d, c) ==
  LET ptbl == addTableSuffix(c.cfg.key)
      ins == _insertTableCfg(d, hsh(CfgJson(c.cfg)))
      alt == ExecAddColumn(d, ptbl, c.added[1])
  IN IF c.added = <<>> THEN Finished(c, d)
     ELSE IF cn # "open" THEN Settled(c, NotOpen(cn), d)
     ELSE IF c.pc = "awaitCfg"
     THEN IF ins.err # ""
          THEN Settled(Issued(c, "INSERT_CFG", RegistryTbl), ins.err, ins.db)
          ELSE Await(Issued(c, "INSERT_CFG", RegistryTbl), "alter", ins.db)
     ELSE IF alt.err # ""
          THEN Settled(Issued(c, "ALTER", ptbl), alt.err, alt.db)
          ELSE IF Len(c.added) = 1
          THEN Finished(Issued(c, "ALTER", ptbl), alt.db)
          ELSE Await([Issued(c, "ALTER", ptbl) EXCEPT !.added = Tail(@)],
                     "alter", alt.db)

\* this.db.prepare(this._sql.tableCfg).get(tableKey): a registry row whose
\* key column equals the table key
RegisteredRowExists(d, tableKey) ==
  QueryWhereEq(d, RegistryTbl, addColumnSuffix("key"), Str(tableKey)) # <<>>

\* _createOrExtendTable from the position of the call to its next await:
\* throwWhenTableIsNotCompatible reads the registry; after the await the
\* lookup of the registered row decides between _createTable and
\* _extendTable, which reads the old config and awaits it
_createOrExtendTable(cn, d, c) ==
  LET compatible == throwWhenTableIsNotCompatible(d, c.cfg)
      oldTableCfg == tableCfgOrNull(d, c.cfg.key)
      addedColumns == AddedColumns(oldTableCfg.columns, c.cfg.columns)
  IN CASE c.pc = "start" ->
            IF cn # "open" THEN Settled(c, NotOpen(cn), d)
            ELSE IF compatible # "ok" THEN Settled(c, compatible, d)
            ELSE Await(c, "awaitCheck", d)
       [] c.pc = "awaitCheck" ->
            IF cn # "open" THEN Settled(c, NotOpen(cn), d)
            ELSE IF ~RegisteredRowExists(d, c.cfg.key)
            THEN Await(c, "createInsert", d)
            ELSE IF tableCfgError(d, c.cfg.key) # "ok"
            THEN Settled(c, tableCfgError(d, c.cfg.key), d)
            ELSE Await([c EXCEPT !.added = addedColumns], "awaitCfg", d)
       [] c.pc \in {"createInsert", "createTable"} -> _createTable(d, c)
       [] OTHER -> _extendTable(cn, d, c)

(***************************************************************************)
(* write                                                                   *)
(* A request is a sequence of entries [table, rows]: the tables of the     *)
(* Rljson object in iteration order, each with its _data.                  *)
(***************************************************************************)
\* IoTools.throwWhenTablesDoNotExist
throwWhenTablesDoNotExist(d, data) ==
  IF \A i \in DOMAIN data : _tableExists(d, data[i].table)
  THEN "ok" ELSE "TableNotFound"

CfgKeys(tableCfg) == {c.key : c \in Range(tableCfg.columns)}

\* IoTools.throwWhenTableDataDoesNotMatchCfg: every table has a registered
\* config and every row's columns belong to it
throwWhenTableDataDoesNotMatchCfg(d, data) ==
  IF \E i \in DOMAIN data : tableCfgError(d, data[i].table) # "ok"
  THEN "TableNotFound"
  ELSE IF \E i \in DOMAIN data : \E j \in DOMAIN data[i].rows :
            ~(DOMAIN data[i].rows[j] \subseteq
                CfgKeys(tableCfgOrNull(d, data[i].table)) \cup {"_hash"})
  THEN "ColumnNotFound"
  ELSE "ok"

\* error.code of an exception thrown by node:sqlite
ErrorCode(err) == "ERR_SQLITE_ERROR"

\* the loop over the rows of one table in _write: [db, errs, stmts].  With
\* the connection closed, prepare throws for every row and the catch block
\* collects the error.
RECURSIVE InsertRows(_, _, _, _, _, _, _)
InsertRows(cn, d, tableName, tableCfg, rows, errs, stmts) ==
  IF rows = <<>> THEN [db |-> d, errs |-> errs, stmts |-> stmts]
  ELSE IF cn # "open"
  THEN InsertRows(cn, d, tableName, tableCfg, Tail(rows),
                  Append(errs, <<tableName, NotOpen(cn)>>), stmts)
  ELSE LET ptbl == addTableSuffix(tableName)
           r == ExecInsert(d, ptbl, PhysCols(tableCfg),
                           _serializeRow(rows[1], tableCfg), TRUE)
           issued == Append(stmts, Stmt("INSERT", ptbl))
       IN IF r.err = ""
          THEN InsertRows(cn, r.db, tableName, tableCfg, Tail(rows), errs, issued)
          ELSE IF ErrorCode(r.err) = "SQLITE_CONSTRAINT_PRIMARYKEY"
          THEN [db |-> r.db, errs |-> errs, stmts |-> issued]
          ELSE InsertRows(cn, r.db, tableName, tableCfg, Tail(rows),
                          Append(errs, <<tableName, r.err>>), issued)

HashedRows(rows) == [i \in DOMAIN rows |-> hsh(rows[i])]

\* _write from the position of the call to its next await: the two checks,
\* then iterateTables over the hashed data, whose callback looks the config
\* of a table up, awaits it and inserts the rows; after the last table the
\* call rejects when row errors were collected
_write(cn, d, c) ==
  LET exist == throwWhenTablesDoNotExist(d, c.data)
      match == throwWhenTableDataDoesNotMatchCfg(d, c.data)
      done == InsertRows(cn, d, c.rest[1].table, c.tcfg,
                         HashedRows(c.rest[1].rows), c.errs, c.stmts)
  IN CASE c.pc = "start" ->
            IF cn # "open" THEN Settled(c, NotOpen(cn), d)
            ELSE IF exist # "ok" THEN Settled(c, exist, d)
            ELSE Await(c, "awaitExists", d)
       [] c.pc = "awaitExists" ->
            IF cn # "open" THEN Settled(c, NotOpen(cn), d)
            ELSE IF match # "ok" THEN Settled(c, match, d)
            ELSE Await([c EXCEPT !.rest = c.data], "awaitMatch", d)
       [] c.pc \in {"awaitMatch", "awaitTable"} ->
            IF c.rest = <<>>
            THEN Settled(c, IF Len(c.errs) > 0 THEN "AggregateWriteError"
                            ELSE "ok", d)
            ELSE IF cn # "open" THEN Settled(c, NotOpen(cn), d)
            ELSE IF tableCfgError(d, c.rest[1].table) # "ok"
            THEN Settled(c, tableCfgError(d, c.rest[1].table), d)
            ELSE Await([c EXCEPT !.tcfg = tableCfgOrNull(d, c.rest[1].table)],
                       "awaitTableCfg", d)
       [] OTHER ->
            Await([c EXCEPT !.rest = Tail(@), !.errs = done.errs,
                            !.stmts = done.stmts],
                  "awaitTable", done.db)

(***************************************************************************)
(* dumpTable                                                               *)
(***************************************************************************)
\* _dumpTable from the position of the call to its next await.  The SELECT
\* names the columns of the registered config; it throws when the table or
\* one of the columns is not there
_dumpTable(cn, d, c) ==
  LET ptbl == addTableSuffix(c.table)
      parsed == _parseData(_convertToReturn(QueryAll(d, ptbl, PhysCols(c.tcfg))),
                           c.tcfg)
  IN IF cn # "open" THEN Settled(c, NotOpen(cn), d)
     ELSE CASE c.pc = "start" ->
                 IF throwWhenTableDoesNotExist(d, c.table) # "ok"
                 THEN Settled(c, "TableNotFound", d)
                 ELSE Await(c, "awaitExists", d)
            [] c.pc = "awaitExists" ->
                 IF tableCfgError(d, c.table) # "ok"
                 THEN Settled(c, tableCfgError(d, c.table), d)
                 ELSE Await([c EXCEPT !.tcfg = tableCfgOrNull(d, c.table)],
                            "awaitTableCfg", d)
            [] OTHER ->
                 IF ~d[ptbl].exists
                 THEN Settled(Issued(c, "SELECT", ptbl), "no such table", d)
                 ELSE IF ~(Range(PhysCols(c.tcfg)) \subseteq Range(d[ptbl].cols))
                 THEN Settled(Issued(c, "SELECT", ptbl), "no such column", d)
                 ELSE IF ParseThrew(parsed)
                 THEN Settled(Issued(c, "SELECT", ptbl), "parse error", d)
                 ELSE Settled([Issued(c, "SELECT", ptbl) EXCEPT
                                 !.out = sortTableDataAndUpdateHash(parsed)],
                              "ok", d)

(***************************************************************************)
(* readRows                                                                *)
(* A filter is a sequence of predicates [col, val].  The statement is      *)
(* "SELECT * FROM <table> WHERE" followed by the text _whereString makes   *)
(* of the predicates; the values are written into the text as they are.    *)
(***************************************************************************)
\* IoTools.throwWhenColumnDoesNotExist
throwWhenColumnDoesNotExist(d, table, columns) ==
  IF tableCfgError(d, table) # "ok" THEN tableCfgError(d, table)
  ELSE IF columns \subseteq CfgKeys(tableCfgOrNull(d, table)) THEN "ok"
  ELSE "ColumnNotFound"

\* one iteration of the loop of _whereString: the condition of one column,
\* by the JavaScript type of the value (a hash is a string); a value of
\* another type makes the function throw
WhereCondition(column, value) ==
  LET columnWithFix == Sql(addColumnSuffix(column)) IN
  IF value.t \in {"str", "hash"}
  THEN <<columnWithFix, Sql(" = "), Sql("'"), value, Sql("'"), Sql(" AND ")>>
  ELSE IF value.t = "num" THEN <<columnWithFix, Sql(" = "), value, Sql(" AND ")>>
  ELSE IF value.t = "bool"
  THEN <<columnWithFix, Sql(" = "), (IF value.v THEN Num(1) ELSE Num(0)),
         Sql(" AND ")>>
  ELSE IF value = NULL THEN <<columnWithFix, Sql(" IS NULL"), Sql(" AND ")>>
  ELSE IF IsObject(value)
  THEN <<columnWithFix, Sql(" = "), Sql("'"), JText(value), Sql("'"),
         Sql(" AND ")>>
  ELSE <<Thrown("Unsupported value type")>>

RECURSIVE WhereConditions(_)
WhereConditions(whereClause) ==
  IF whereClause = <<>> THEN <<>>
  ELSE WhereCondition(Head(whereClause).col, Head(whereClause).val)
         \o WhereConditions(Tail(whereClause))

\* _whereString: a blank and the conditions in the order of the clause,
\* without the ' AND ' the last one ends with
_whereString(whereClause) ==
  LET whereString == <<Sql(" ")>> \o WhereConditions(whereClause) IN
  IF whereString[Len(whereString)] = Sql(" AND ")
  THEN SubSeq(whereString, 1, Len(whereString) - 1)
  ELSE whereString

\* the query of _readRows and the arguments of all()
ReadRowsQuery(table, where) ==
  [kind |-> "select", table |-> table,
   keys |-> [i \in DOMAIN where |-> where[i].col],
   text |-> <<Sql("SELECT * FROM "), Sql(addTableSuffix(table)), Sql(" WHERE")>>
              \o _whereString(where),
   params |-> <<>>]

WhereColumns(where) == {where[j].col : j \in DOMAIN where}

\* _readRows from the position of the call to its next await.  After the
\* last await it builds the query, which throws for a value of a type
\* _whereString does not know, before it touches the connection; then it
\* hands the text to prepare(query).all(), which throws when the
\* connection is closed or SQLite rejects the text.  Rows that were found
\* are decoded and sorted; an empty result is returned as it is.
_readRows(cn, d, c) ==
  LET ptbl == addTableSuffix(c.table)
      colsExist == throwWhenColumnDoesNotExist(d, c.table, WhereColumns(c.where))
      query == ReadRowsQuery(c.table, c.where)
      resultSet == QueryWhere(d, query.text)
      parsed == _parseData(_convertToReturn(resultSet.rows), c.tcfg)
      built == c.pc \notin {"start", "awaitExists", "awaitColumns"}
  IN IF built /\ \E i \in DOMAIN query.text : query.text[i].t = "throw"
     THEN Settled(c, "Unsupported value type", d)
     ELSE IF cn # "open" THEN Settled(c, NotOpen(cn), d)
     ELSE CASE c.pc = "start" ->
                 IF throwWhenTableDoesNotExist(d, c.table) # "ok"
                 THEN Settled(c, "TableNotFound", d)
                 ELSE Await(c, "awaitExists", d)
            [] c.pc = "awaitExists" ->
                 IF colsExist # "ok" THEN Settled(c, colsExist, d)
                 ELSE Await(c, "awaitColumns", d)
            [] c.pc = "awaitColumns" ->
                 IF tableCfgError(d, c.table) # "ok"
                 THEN Settled(c, tableCfgError(d, c.table), d)
                 ELSE Await([c EXCEPT !.tcfg = tableCfgOrNull(d, c.table)],
                            "awaitTableCfg", d)
            [] OTHER ->
                 IF resultSet.err # ""
                 THEN Settled(Issued(c, "SELECT", ptbl), resultSet.err, d)
                 ELSE IF resultSet.rows = <<>>
                 THEN Settled(Issued(c, "SELECT", ptbl), "ok", d)
                 ELSE IF ParseThrew(parsed)
                 THEN Settled(Issued(c, "SELECT", ptbl), "parse error", d)
                 ELSE Settled([Issued(c, "SELECT", ptbl) EXCEPT
                                 !.out = sortTableDataAndUpdateHash(parsed)],
                              "ok", d)

(***************************************************************************)
(* rowCount                                                                *)
(***************************************************************************)
\* db.prepare(SqlStatements.rowCount(table)).all(): the result of a SELECT
\* COUNT(*) is one row object whose only column holds the count
QueryCount(d, ptbl) ==
  <<[k \in {"COUNT(*)"} |-> Num(Len(d[ptbl].rows))]>>

\* Number(stmt?.[0]?.values?.[0]?.[0] ?? 0): the first element of the first
\* element of the property "values" of the first row object, or 0 when the
\* row object has no such property or it is no array
CountRaw(stmt) ==
  IF stmt = <<>> THEN 0
  ELSE LET first == stmt[1] IN
       IF "values" \in DOMAIN first /\ IsArray(first["values"])
       THEN first["values"].v[1][1]
       ELSE 0

\* rowCount from the position of the call to its next await
_rowCount(cn, d, c) ==
  LET ptbl == addTableSuffix(c.table) IN
  IF cn # "open" THEN Settled(c, NotOpen(cn), d)
  ELSE IF c.pc = "start"
  THEN IF throwWhenTableDoesNotExist(d, c.table) # "ok"
       THEN Settled(c, "TableNotFound", d)
       ELSE Await(c, "awaitExists", d)
  ELSE IF ~d[ptbl].exists
  THEN Settled(Issued(c, "SELECT", ptbl), "no such table", d)
  ELSE Settled([Issued(c, "SELECT", ptbl) EXCEPT
                  !.count = CountRaw(QueryCount(d, ptbl))], "ok", d)

(***************************************************************************)
(* Requests the facade is called with.                                     *)
(***************************************************************************)
RowA1 == [a |-> Num(1)]
RowA2 == [a |-> Num(2)]
RowAB == [a |-> Num(3), b |-> Str("x")]
Entry(t, rows) == [table |-> t, rows |-> rows]

\* the last list for one table is a row with a column that no config
\* declares; two requests hold a row twice, before another row and before
\* another table
WriteRequests ==
  {<<Entry(t, rows)>> :
     t \in UserTables,
     rows \in {<<RowA1>>, <<RowA1, RowA2>>, <<RowA1, RowAB>>,
               <<[c |-> Num(1)]>>}}
    \cup {<<Entry("users", <<RowA1>>), Entry("items", <<RowA2>>)>>,
          <<Entry("users", <<RowA1, RowA1, RowA2>>)>>,
          <<Entry("users", <<RowA1, RowA1>>), Entry("items", <<RowA2>>)>>}

Pred(c, val) == [col |-> c, val |-> val]

\* the filters readRows is called with; the last two hold a text with a
\* quote character
Filters ==
  {<<>>, <<Pred("a", Num(1))>>, <<Pred("a", Num(9))>>,
   <<Pred("b", Str("x"))>>, <<Pred("c", Num(1))>>,
   <<Pred("b", Str("o'k"))>>, <<Pred("b", Str("x' OR '1'='1"))>>}

\* the tables rowCount is asked about: the user tables and the registry
CountedTables == UserTables \cup {"tableCfgs"}

(***************************************************************************)
(* The state machine.                                                      *)
(***************************************************************************)
\* the callers: each has at most one call at a time, and its record stays
\* until the caller makes its next call
Callers == {"first", "second"}

\* no row is on its way through the codec
NoCodec == [stage |-> "none", cfg |-> NoCfg, err |-> "", row |-> <<>>,
            cols |-> <<>>, stored |-> <<>>,
            decoded |-> <<>>]

\* no statement has been built
NoSql == [kind |-> "none", table |-> "", keys |-> <<>>, text |-> <<>>,
          params |-> <<>>, answer |-> [err |-> "", rows |-> <<>>]]

\* a function handed to NodeSQLite.transaction: the calls it makes on the
\* instance, in order, and how it ends
NoFn == [steps |-> <<>>, ends |-> "none"]

\* new NodeSQLite(): db and dbPath are null.  rows, committed and inTx are
\* the connection's visible content, its durable content and whether a
\* transaction is active.  The
\* other fields describe the last call: what it was, what it threw, what it
\* returned, the statements it issued, and the state it started from.
NewNode ==
  [db |-> "null", dbPath |-> "null", rows |-> {}, committed |-> {},
   inTx |-> FALSE,
   op |-> "new", err |-> "", value |-> "", out |-> {}, log |-> <<>>,
   fn |-> NoFn, fnOutcome |-> "not called", fnErr |-> "",
   before |-> [open |-> FALSE, path |-> "null", rows |-> {}]]

Init ==
  /\ conn = "none"
  /\ isOpenFlag = FALSE
  /\ ready = FALSE
  /\ db = EmptyDb
  /\ calls = [p \in Callers |-> NoCall]
  /\ codec = NoCodec
  /\ sql = NoSql
  /\ node = NewNode
  /\ opened = 0

\* the blocks that run without awaiting
Held == {"createInsert", "createTable", "alter"}

InFlight(c) == c.pc \notin {"idle", "done"}

\* caller p may run: it has no call in flight where it makes a call, and no
\* other caller is inside a block that runs without awaiting
ThreadFree(p) == \A q \in Callers \ {p} : calls[q].pc \notin Held

\* _initTableCfgs: create the registry table; the insert statement for the
\* registry's own config is prepared but not run
_initTableCfgs(d) ==
  ExecCreateTable(d, RegistryTbl, tableCfgsTableCfg.columns).db

\* init() up to its await: a new in-memory database replaces this.db, and
\* the connection this.db held before is not closed; the registry table is
\* created; IoTools.initRevisionsTable calls createOrExtendTable for the
\* revisions table, which reads the registry and awaits
init(p) ==
  LET r == _createOrExtendTable(
             "open", _initTableCfgs(EmptyDb),
             Issued(NewCall(db, "init", "", revisionsTableCfg, <<>>, <<>>),
                    "CREATE", RegistryTbl))
  IN /\ ~InFlight(calls[p])
     /\ ThreadFree(p)
     /\ opened < MaxConnections
     /\ opened' = opened + 1
     /\ conn' = "open"
     /\ isOpenFlag' = TRUE
     /\ db' = r.db
     /\ calls' = [calls EXCEPT ![p] = r.c]
     /\ UNCHANGED <<ready, codec, sql, node>>

\* close as a call record
Closed(cn) ==
  Settled(NewCall(EmptyDb, "close", "", NoCfg, <<>>, <<>>),
          CASE cn = "none" -> "TypeError"
            [] cn = "closed" -> "database is not open"
            [] OTHER -> "ok",
          EmptyDb).c

\* A variant of close() that also replaces the readiness gate by a new,
\* unresolved one; C14_ReadyOneShot must tell it from close().
closeRenewsGate(p) ==
  /\ ~InFlight(calls[p])
  /\ ThreadFree(p)
  /\ isOpenFlag' = FALSE
  /\ conn' = IF conn = "none" THEN "none" ELSE "closed"
  /\ opened' = IF conn = "open" THEN opened - 1 ELSE opened
  /\ db' = EmptyDb
  /\ ready' = FALSE
  /\ calls' = [calls EXCEPT ![p] = Closed(conn)]
  /\ UNCHANGED <<codec, sql, node>>

\* A variant of close() that closes the connection and leaves the flag as
\* it is; C29_IsOpenTracksConnection must tell it from close().
closeKeepsFlag(p) ==
  /\ ~InFlight(calls[p])
  /\ ThreadFree(p)
  /\ isOpenFlag' = isOpenFlag
  /\ conn' = IF conn = "none" THEN "none" ELSE "closed"
  /\ opened' = IF conn = "open" THEN opened - 1 ELSE opened
  /\ db' = EmptyDb
  /\ ready' = ready
  /\ calls' = [calls EXCEPT ![p] = Closed(conn)]
  /\ UNCHANGED <<codec, sql, node>>

\* close(): the flag is cleared, then this.db.close() runs: it throws a
\* TypeError when init never ran and an error when the database is closed.
\* The method does not await: it runs to its end when it is called.
close(p) ==
  /\ ~InFlight(calls[p])
  /\ ThreadFree(p)
  /\ isOpenFlag' = FALSE
  /\ conn' = IF conn = "none" THEN "none" ELSE "closed"
  /\ opened' = IF conn = "open" THEN opened - 1 ELSE opened
  /\ db' = EmptyDb
  /\ ready' = ready
  /\ calls' = [calls EXCEPT ![p] = Closed(conn)]
  /\ UNCHANGED <<codec, sql, node>>

\* a data method is called: it runs up to its first await, or rejects
Invoked(p, r) ==
  /\ ThreadFree(p)
  /\ calls' = [calls EXCEPT ![p] = r.c]
  /\ db' = r.db
  /\ UNCHANGED <<conn, isOpenFlag, ready, codec, sql, node, opened>>

createOrExtendTable(p, tableCfg) ==
  /\ ~InFlight(calls[p])
  /\ Len(db[RegistryTbl].rows) < MaxRegistryRows
  /\ Invoked(p, _createOrExtendTable(conn, db,
                 NewCall(db, "createOrExtendTable", tableCfg.key, tableCfg, <<>>, <<>>)))

write(p, data) ==
  /\ ~InFlight(calls[p])
  /\ Invoked(p, _write(conn, db,
                        NewCall(db, "write", "", NoCfg, data, <<>>)))

dumpTable(p, table) ==
  /\ ~InFlight(calls[p])
  /\ Invoked(p, _dumpTable(conn, db,
              [NewCall(db, "dumpTable", table, NoCfg, <<>>, <<>>) EXCEPT
                 !.after = IF calls[p].op = "write" THEN calls[p].data
                           ELSE <<>>]))

readRows(p, table, where) ==
  /\ ~InFlight(calls[p])
  /\ Invoked(p, _readRows(conn, db,
                           NewCall(db, "readRows", table, NoCfg, <<>>, where)))

rowCount(p, table) ==
  /\ ~InFlight(calls[p])
  /\ Invoked(p, _rowCount(conn, db,
                           NewCall(db, "rowCount", table, NoCfg, <<>>, <<>>)))

\* a method that does not await has run
Returned(p, op, outcome) ==
  /\ ~InFlight(calls[p])
  /\ ThreadFree(p)
  /\ calls' = [calls EXCEPT ![p] =
                 Settled(NewCall(db, op, "", NoCfg, <<>>, <<>>), outcome, db).c]
  /\ UNCHANGED <<conn, isOpenFlag, ready, db, codec, sql, node>>

\* execute(sql): a new connection to the database file ./data/app.db is
\* opened, the statement is prepared and run on it, and the connection is
\* not closed.  The call throws when the file cannot be opened, and, with
\* the connection open, when the statement is not valid.
execute(p, outcome) ==
  /\ opened < MaxConnections
  /\ opened' = IF outcome = "unable to open database file" THEN opened
                ELSE opened + 1
  /\ Returned(p, "execute", outcome)

\* queryDatabase(): a new connection to ./data/app.db is opened, the rows
\* of the table example are read, and the connection is not closed.  The
\* call throws when the file cannot be opened, and, with the connection
\* open, when the file has no table example.
queryDatabase(p, outcome) ==
  /\ opened < MaxConnections
  /\ opened' = IF outcome = "unable to open database file" THEN opened
                ELSE opened + 1
  /\ Returned(p, "queryDatabase", outcome)

\* createDatabase(): the directory is made, a connection to ./data/app.db
\* is opened and closed again.  The call throws when the file cannot be
\* opened.
createDatabase(p, outcome) ==
  /\ opened < MaxConnections
  /\ opened' = opened
  /\ Returned(p, "createDatabase", outcome)

\* a call in flight runs on after an await, up to its next await or to its
\* end; init resolves the readiness gate after its last await
resume(p) ==
  LET c == calls[p]
      r == CASE c.pc = "awaitRevisions" -> Settled(c, "ok", db)
             [] c.op = "write" -> _write(conn, db, c)
             [] c.op = "dumpTable" -> _dumpTable(conn, db, c)
             [] c.op = "readRows" -> _readRows(conn, db, c)
             [] c.op = "rowCount" -> _rowCount(conn, db, c)
             [] OTHER -> _createOrExtendTable(conn, db, c)
  IN /\ InFlight(c)
     /\ ThreadFree(p)
     /\ calls' = [calls EXCEPT ![p] = r.c]
     /\ db' = r.db
     /\ ready' = (ready \/ c.pc = "awaitRevisions")
     /\ UNCHANGED <<conn, isOpenFlag, codec, sql, node, opened>>

\* the calls of the callers, with requests from the given sets
Facade(callers, cfgs, requests, tables, filters, counted) ==
  \/ \E p \in callers : init(p)
  \/ \E p \in callers : close(p)
  \/ \E p \in callers :
       \E outcome \in {"ok", "unable to open database file", "syntax error"} :
         execute(p, outcome)
  \/ \E p \in callers :
       \E outcome \in {"ok", "unable to open database file", "no such table"} :
         queryDatabase(p, outcome)
  \/ \E p \in callers :
       \E outcome \in {"ok", "unable to open database file"} :
         createDatabase(p, outcome)
  \/ \E p \in callers, tableCfg \in cfgs : createOrExtendTable(p, tableCfg)
  \/ \E p \in callers, data \in requests : write(p, data)
  \/ \E p \in callers, table \in tables : dumpTable(p, table)
  \/ \E p \in callers, table \in tables, where \in filters :
       readRows(p, table, where)
  \/ \E p \in callers, table \in counted : rowCount(p, table)
  \/ \E p \in callers : resume(p)

\* Two callers that do not await each other's calls, with the requests for
\* one table: its config and an extension of it, one row, one filter.
Next ==
  Facade(Callers,
         {[key |-> "users", type |-> "components", columns |-> cols] :
            cols \in {<<HashCol, Col("a", "number")>>,
                      <<HashCol, Col("a", "number"), Col("b", "string")>>}},
         {<<Entry("users", <<RowA1>>)>>},
         {"users"},
         {<<Pred("a", Num(1))>>},
         {"users"})

Spec == Init /\ [][Next]_vars

\* One caller that awaits every call before it makes the next, with all
\* requests.
NextAwaited ==
  Facade({"first"}, TableCfgs, WriteRequests, UserTables, Filters,
         CountedTables)

SpecAwaited == Init /\ [][NextAwaited]_vars

(***************************************************************************)
(* The codec on its own: a row is serialized by _serializeRow as _write    *)
(* does, the values are stored by the insert statement of _write, the row  *)
(* is read back as a row object keyed by the physical column names, and    *)
(* _parseData decodes it by the column types of the config.                *)
(***************************************************************************)
\* a config with one column of every type _parseData decodes
CodecCfg ==
  [key |-> "items", type |-> "components",
   columns |-> <<HashCol, Col("title", "string"), Col("count", "number"),
                 Col("done", "boolean"), Col("meta", "json"),
                 Col("tags", "jsonArray")>>]

\* the non-null values of a type
ValuesOfType(type) ==
  CASE type = "string" -> {Str(""), Str("x")}
    [] type = "number" -> {Num(0), Num(7)}
    [] type = "boolean" -> {Bool(TRUE), Bool(FALSE)}
    [] type = "json" -> {Obj("{}"), Obj("{k:1}")}
    [] type = "jsonArray" -> {Obj("[]"), Obj("[0]")}
    [] OTHER -> {}

CodecKeys == CfgKeys(CodecCfg) \ {"_hash"}

\* the rows written: every key holds a value of its column's type, is
\* null, or is absent
Absent == [t |-> "absent", v |-> 0]

CodecRows ==
  LET Choice == {f \in [CodecKeys ->
                          UNION {ValuesOfType(c.type) : c \in Range(CodecCfg.columns)}
                            \cup {NULL, Absent}] :
                   \A c \in Range(CodecCfg.columns) :
                     c.key \in CodecKeys
                       => f[c.key] \in ValuesOfType(c.type) \cup {NULL, Absent}}
  IN {[k \in {x \in CodecKeys : f[x] # Absent} |-> f[k]] : f \in Choice}

\* the column lists a row is read back with: all columns of the config, or
\* only the columns the table had before "meta" and "tags" were added
SelectLists == {PhysCols(CodecCfg), SubSeq(PhysCols(CodecCfg), 1, 4)}

\* a config with a column whose declared type is none of the five
OddCfg ==
  [key |-> "items", type |-> "components",
   columns |-> <<HashCol, Col("title", "string"), Col("extra", "date")>>]

\* the rows with their configs.  OffTypeRows hold a value that is not of
\* its column's type: a text in a json, a jsonArray and a number column,
\* and a number in a json, a string and a boolean column.  In the rows
\* written with OddCfg the column of the other type holds a value, is
\* null, or is absent
CodecInputs ==
  LET OffTypeRows ==
        {[meta |-> Str("null")], [meta |-> Str("x")], [meta |-> Str("7")],
         [meta |-> Str("true")], [meta |-> Num(7)], [tags |-> Str("null")],
         [title |-> Num(7)], [count |-> Str("7")], [done |-> Num(7)],
         [title |-> Str("x"), meta |-> Str("null"), tags |-> Obj("[0]")]}
  IN {[cfg |-> CodecCfg, row |-> row] : row \in CodecRows \cup OffTypeRows}
       \cup {[cfg |-> OddCfg, row |-> row] :
               row \in {[title |-> Str("x"), extra |-> Str("2026-01-01")],
                        [title |-> Str("x"), extra |-> NULL],
                        [title |-> Str("x")]}}

SelectListsOf(cfg) == IF cfg = CodecCfg THEN SelectLists ELSE {PhysCols(cfg)}

InitCodec ==
  /\ conn = "none"
  /\ isOpenFlag = FALSE
  /\ ready = FALSE
  /\ db = EmptyDb
  /\ calls = [p \in Callers |-> NoCall]
  /\ \E in \in CodecInputs :
       codec = [NoCodec EXCEPT !.stage = "row", !.cfg = in.cfg, !.row = in.row]
  /\ sql = NoSql
  /\ node = NewNode
  /\ opened = 0

\* the row is hashed and serialized, inserted, and read back with the
\* columns pcols
serializeRow(pcols) ==
  LET ptbl == addTableSuffix(codec.cfg.key)
      created == ExecCreateTable(EmptyDb, ptbl, codec.cfg.columns).db
      inserted == ExecInsert(created, ptbl, PhysCols(codec.cfg),
                             _serializeRow(hsh(codec.row), codec.cfg), TRUE).db
  IN /\ codec.stage = "row"
     /\ pcols \in SelectListsOf(codec.cfg)
     /\ codec' = [codec EXCEPT !.stage = "stored", !.cols = pcols,
                               !.stored = QueryAll(inserted, ptbl, pcols)]
     /\ UNCHANGED <<conn, isOpenFlag, ready, db, calls, sql, node, opened>>

\* the row objects are decoded, or _parseData throws
parseData ==
  /\ codec.stage = "stored"
  /\ LET parsed == _parseData(codec.stored, codec.cfg)
         thrown == {parsed[1][k] : k \in {x \in DOMAIN parsed[1] :
                                            parsed[1][x].t = "throw"}}
     IN
     IF ParseThrew(parsed)
     THEN codec' = [codec EXCEPT !.stage = "threw",
                                 !.err = (CHOOSE e \in thrown : TRUE).v]
     ELSE codec' = [codec EXCEPT !.stage = "decoded", !.decoded = parsed]
  /\ UNCHANGED <<conn, isOpenFlag, ready, db, calls, sql, node, opened>>

NextCodec ==
  \/ \E pcols \in SelectLists \cup {PhysCols(OddCfg)} : serializeRow(pcols)
  \/ parseData

SpecCodec == InitCodec /\ [][NextCodec]_vars

(***************************************************************************)
(* The statements of readRows and write as text, and what the connection   *)
(* answers to the text of readRows when the tables hold the rows of        *)
(* SampleRows.                                                             *)
(***************************************************************************)
\* the query of one row of _write and the arguments of run()
InsertQuery(tableCfg, row) ==
  LET columnKeys == [i \in DOMAIN tableCfg.columns |-> tableCfg.columns[i].key]
      placeholders == [i \in DOMAIN columnKeys |-> Sql("?")]
  IN [kind |-> "insert", table |-> tableCfg.key, keys |-> columnKeys,
      text |-> <<Sql("INSERT OR IGNORE INTO "),
                 Sql(addTableSuffix(tableCfg.key)), Sql(" (")>>
                 \o [i \in DOMAIN columnKeys |-> Sql(addColumnSuffix(columnKeys[i]))]
                 \o <<Sql(") VALUES (")>> \o placeholders \o <<Sql(")")>>,
      params |-> _serializeRow(row, tableCfg)]

\* the user tables with the columns _hash, a and b, each holding three
\* rows written by the loop of _write
SampleDb ==
  LET cfg(t) == [key |-> t, type |-> "components",
                 columns |-> <<HashCol, Col("a", "number"), Col("b", "string")>>]
      rows == <<[a |-> Num(1), b |-> Str("x")], [a |-> Num(9), b |-> Str("o'k")],
                [a |-> Num(3), b |-> Str("1")]>>
      Filled(d, t) ==
        InsertRows("open",
                   ExecCreateTable(d, addTableSuffix(t), cfg(t).columns).db,
                   t, cfg(t), HashedRows(rows), <<>>, <<>>).db
  IN Filled(Filled(EmptyDb, "users"), "items")

\* Object.entries(request.where): no column twice.  The values are of
\* every type _whereString tells apart, two texts hold a quote character,
\* one text is a numeral, and one value is undefined.
WhereClauses ==
  LET WhereValues ==
        {Num(1), Num(9), Str("x"), Str("y"), Str("1"), Str("o'k"),
         Str("x' OR '1'='1"), Bool(TRUE), NULL, Obj("{}"),
         [t |-> "undefined", v |-> 0]}
  IN {<<>>}
       \cup {<<Pred(c, val)>> : c \in {"a", "b"}, val \in WhereValues}
       \cup {<<Pred(c[1], v1), Pred(c[2], v2)>> :
               c \in {<<"a", "b">>, <<"b", "a">>},
               v1 \in WhereValues, v2 \in WhereValues}

\* _readRows builds its query and hands it to prepare(query).all()
readRowsQuery(table, where) ==
  LET query == ReadRowsQuery(table, where) IN
  /\ sql' = [kind |-> query.kind, table |-> query.table, keys |-> query.keys,
             text |-> query.text, params |-> query.params,
             answer |-> IF \E i \in DOMAIN query.text : query.text[i].t = "throw"
                        THEN [err |-> "Unsupported value type", rows |-> <<>>]
                        ELSE QueryWhere(SampleDb, query.text)]
  /\ UNCHANGED <<conn, isOpenFlag, ready, db, calls, codec, node, opened>>

\* _write builds the query of one row of the hashed data and hands it to
\* prepare(query).run()
insertQuery(tableCfg, row) ==
  LET query == InsertQuery(tableCfg, hsh(row)) IN
  /\ sql' = [kind |-> query.kind, table |-> query.table, keys |-> query.keys,
             text |-> query.text, params |-> query.params,
             answer |-> [err |-> "", rows |-> <<>>]]
  /\ UNCHANGED <<conn, isOpenFlag, ready, db, calls, codec, node, opened>>

NextSql ==
  \/ \E table \in UserTables, where \in WhereClauses :
       readRowsQuery(table, where)
  \/ \E tableCfg \in TableCfgs, row \in {RowA1, RowA2, RowAB} :
       insertQuery(tableCfg, row)

SpecSql == Init /\ [][NextSql]_vars

(***************************************************************************)
(* NodeSQLite: the wrapper around one DatabaseSync connection.  All its    *)
(* methods are synchronous, so each call is one step.                      *)
(***************************************************************************)
MaxFnSteps == 2

RowIds == {1, 2}

\* "missing/data.db" is a file in a directory that does not exist: new
\* DatabaseSync(path) throws for it
Paths == {":memory:", "missing/data.db"}

\* the statements: an INSERT of one row, and BEGIN TRANSACTION, COMMIT,
\* ROLLBACK and SELECT.  Step("close") is not a statement: a function handed
\* to transaction calls close() on the instance
Insert(r) == [s |-> "INSERT", r |-> r]
Step(s) == [s |-> s, r |-> 0]

NodeIsOpen(n) == n.db # "null"

NodeGetPath(n) == n.dbPath

Throw(n, message) == [n EXCEPT !.err = message]

\* this.db.prepare(sql).run(): SQLite executes one statement.  Outside a
\* transaction a statement is committed as it completes.
Run(n, stmt) ==
  LET issued == [n EXCEPT !.log = Append(@, stmt)] IN
  CASE stmt.s = "INSERT" ->
         IF stmt.r \in n.rows THEN Throw(issued, "UNIQUE constraint failed")
         ELSE [issued EXCEPT !.rows = @ \cup {stmt.r},
                 !.committed = IF n.inTx THEN @ ELSE n.rows \cup {stmt.r}]
    [] stmt.s = "BEGIN TRANSACTION" ->
         IF n.inTx
         THEN Throw(issued, "cannot start a transaction within a transaction")
         ELSE [issued EXCEPT !.inTx = TRUE]
    [] stmt.s = "COMMIT" ->
         IF ~n.inTx
         THEN Throw(issued, "cannot commit - no transaction is active")
         ELSE [issued EXCEPT !.committed = n.rows, !.inTx = FALSE]
    [] stmt.s = "ROLLBACK" ->
         IF ~n.inTx
         THEN Throw(issued, "cannot rollback - no transaction is active")
         ELSE [issued EXCEPT !.rows = n.committed, !.inTx = FALSE]
    [] OTHER -> issued

\* open that records the path before it looks at the connection
OpenPathFirst(n, path, inMemory) ==
  LET withPath == [n EXCEPT !.dbPath = path]
      memory == inMemory \/ path = ":memory:"
  IN IF n.db # "null" THEN Throw(withPath, "Database is already open")
     ELSE IF ~memory
     THEN Throw(withPath, "unable to open database file")
     ELSE [withPath EXCEPT !.db = "open", !.rows = {}, !.committed = {},
             !.inTx = FALSE]

\* options.inMemory or the path ':memory:' give a new, empty database; the
\* other path of Paths is a file that cannot be opened
NodeSQLite_open(n, path, inMemory) ==
  IF n.db # "null" THEN Throw(n, "Database is already open")
  ELSE LET withPath == [n EXCEPT !.dbPath = path]
           memory == inMemory \/ path = ":memory:"
       IN IF ~memory
          THEN Throw(withPath, "unable to open database file")
          ELSE [withPath EXCEPT !.db = "open", !.rows = {},
                  !.committed = {}, !.inTx = FALSE]

\* db.close() ends an active transaction without committing it
NodeSQLite_close(n) ==
  IF n.db = "null" THEN Throw(n, "Database is not open")
  ELSE [n EXCEPT !.db = "null", !.dbPath = "null", !.rows = {},
          !.committed = {}, !.inTx = FALSE]

\* execute without its test of this.db: on an instance that is not open
\* this.db.prepare is a property of null
ExecuteUnguarded(n, stmt) ==
  IF n.db = "null" THEN Throw(n, "TypeError")
  ELSE LET ran == Run(n, stmt) IN
       IF ran.err # "" THEN ran ELSE [ran EXCEPT !.value = "changes"]

NodeSQLite_execute(n, stmt) ==
  IF n.db = "null" THEN Throw(n, "Database is not open")
  ELSE LET ran == Run(n, stmt) IN
       IF ran.err # "" THEN ran ELSE [ran EXCEPT !.value = "changes"]

NodeSQLite_query(n) ==
  IF n.db = "null" THEN Throw(n, "Database is not open")
  ELSE [Run(n, Step("SELECT")) EXCEPT !.out = n.rows, !.value = "rows"]

NodeSQLite_queryOne(n) ==
  IF n.db = "null" THEN Throw(n, "Database is not open")
  ELSE IF n.rows = {} THEN [Run(n, Step("SELECT")) EXCEPT !.value = "null"]
  ELSE [Run(n, Step("SELECT")) EXCEPT !.out = {CHOOSE r \in n.rows : \A q \in n.rows : r <= q}, !.value = "row"]

\* prepare returns the statement without running it
NodeSQLite_prepare(n) ==
  IF n.db = "null" THEN Throw(n, "Database is not open")
  ELSE [n EXCEPT !.value = "statement"]

\* fn(): its calls on the instance from the i-th on; the first one that
\* throws ends it.  A nested call is transaction(() => {}).
RECURSIVE NodeSQLite_transaction(_, _)
RECURSIVE RunFn(_, _, _)
RunFn(n, fn, i) ==
  IF i > Len(fn.steps)
  THEN IF fn.ends = "throw" THEN Throw(n, "E") ELSE n
  ELSE LET done == IF fn.steps[i] = Step("close") THEN NodeSQLite_close(n)
                   ELSE IF fn.steps[i] = Step("transaction")
                        THEN NodeSQLite_transaction(n, [steps |-> <<>>, ends |-> "return"])
                   ELSE NodeSQLite_execute(n, fn.steps[i])
       IN IF done.err # "" THEN done ELSE RunFn(done, fn, i + 1)

\* the catch block of transaction: ROLLBACK, then the caught error is
\* thrown again, unless ROLLBACK itself threw
CatchRollback(n) ==
  LET rolled == NodeSQLite_execute([n EXCEPT !.err = ""], Step("ROLLBACK")) IN
  IF rolled.err # "" THEN rolled ELSE Throw(rolled, n.err)

NodeSQLite_transaction(n, fn) ==
  IF n.db = "null" THEN Throw(n, "Database is not open")
  ELSE LET begun == NodeSQLite_execute(n, Step("BEGIN TRANSACTION")) IN
       IF begun.err # "" THEN begun
       ELSE LET ran == RunFn(begun, fn, 1)
                called == [ran EXCEPT !.fnErr = ran.err,
                             !.fnOutcome = IF ran.err = "" THEN "returned"
                                           ELSE "threw"]
            IN IF called.err # "" THEN CatchRollback(called)
               ELSE LET ended == NodeSQLite_execute(called, Step("COMMIT")) IN
                    IF ended.err # "" THEN CatchRollback(ended)
                    ELSE [ended EXCEPT !.value = "v"]

\* the functions: up to MaxFnSteps calls, then a return or a throw
Fns ==
  LET FnSteps == {Insert(r) : r \in RowIds}
                   \cup {Step("COMMIT"), Step("ROLLBACK"), Step("close"),
                         Step("transaction")}
  IN [steps : UNION {[1..len -> FnSteps] : len \in 0..MaxFnSteps},
      ends : {"return", "throw"}]

\* the start of a call: nothing thrown, returned or issued yet
Called(n, op, fn) ==
  [n EXCEPT !.op = op, !.err = "", !.value = "", !.out = {}, !.log = <<>>,
     !.fn = fn, !.fnOutcome = "not called", !.fnErr = "",
     !.before = [open |-> NodeIsOpen(n), path |-> NodeGetPath(n),
                 rows |-> n.rows]]

nodeOpen(path, inMemory) ==
  /\ node' = NodeSQLite_open(Called(node, "open", NoFn), path, inMemory)
  /\ UNCHANGED <<conn, isOpenFlag, ready, db, calls, codec, sql, opened>>

nodeClose ==
  /\ node' = NodeSQLite_close(Called(node, "close", NoFn))
  /\ UNCHANGED <<conn, isOpenFlag, ready, db, calls, codec, sql, opened>>

nodeExecute(stmt) ==
  /\ node' = NodeSQLite_execute(Called(node, "execute", NoFn), stmt)
  /\ UNCHANGED <<conn, isOpenFlag, ready, db, calls, codec, sql, opened>>

nodeQuery ==
  /\ node' = NodeSQLite_query(Called(node, "query", NoFn))
  /\ UNCHANGED <<conn, isOpenFlag, ready, db, calls, codec, sql, opened>>

nodeQueryOne ==
  /\ node' = NodeSQLite_queryOne(Called(node, "queryOne", NoFn))
  /\ UNCHANGED <<conn, isOpenFlag, ready, db, calls, codec, sql, opened>>

nodePrepare ==
  /\ node' = NodeSQLite_prepare(Called(node, "prepare", NoFn))
  /\ UNCHANGED <<conn, isOpenFlag, ready, db, calls, codec, sql, opened>>

nodeTransaction(fn) ==
  /\ node' = NodeSQLite_transaction(Called(node, "transaction", fn), fn)
  /\ UNCHANGED <<conn, isOpenFlag, ready, db, calls, codec, sql, opened>>

NextNode ==
  \/ \E path \in Paths, inMemory \in BOOLEAN : nodeOpen(path, inMemory)
  \/ nodeClose
  \/ \E stmt \in {Insert(r) : r \in RowIds}
                    \cup {Step("BEGIN TRANSACTION"), Step("COMMIT"),
                          Step("ROLLBACK")} :
       nodeExecute(stmt)
  \/ nodeQuery
  \/ nodeQueryOne
  \/ nodePrepare
  \/ \E fn \in Fns : nodeTransaction(fn)

SpecNode == Init /\ [][NextNode]_vars

(***************************************************************************)
(* Vocabulary of the properties.                                           *)
(***************************************************************************)
\* a table is registered once a createOrExtendTable call has created it
IsRegistered(d, table) == d[addTableSuffix(table)].exists

\* the values _insertTableCfg serialized for a registry row: <<_hash, key,
\* type, columns>>, read from the row whichever way they were bound
VersionValues(row) ==
  IF row[PkCol].t = "joined" THEN row[PkCol].v
  ELSE [i \in DOMAIN tableCfgsTableCfg.columns |->
          row[addColumnSuffix(tableCfgsTableCfg.columns[i].key)]]

VersionKey(row) == VersionValues(row)[2].v

VersionColumns(row) == VersionValues(row)[4].v.v

\* the versions the registry holds for a table key, oldest first
VersionsOf(d, table) ==
  LET rows == d[RegistryTbl].rows IN
  SelectRows(rows, [i \in DOMAIN rows |-> VersionKey(rows[i]) = table])

\* the columns of the active (latest) version of a registered table
ActiveColumns(d, table) ==
  VersionColumns(VersionsOf(d, table)[Len(VersionsOf(d, table))])

\* every column of the row belongs to the table's active schema
RowFits(d, table, row) ==
  DOMAIN row \subseteq {c.key : c \in Range(ActiveColumns(d, table))}

\* every table of the request is registered and every row fits its schema
RequestFits(d, data) ==
  \A i \in DOMAIN data :
    /\ IsRegistered(d, data[i].table)
    /\ \A j \in DOMAIN data[i].rows : RowFits(d, data[i].table, data[i].rows[j])

CountRows(data) ==
  IF Len(data) = 0 THEN 0
  ELSE IF Len(data) = 1 THEN Len(data[1].rows)
  ELSE Len(data[1].rows) + Len(data[2].rows)

Inserts(stmts) == SelectRows(stmts, [i \in DOMAIN stmts |-> stmts[i].k = "INSERT"])

\* caller p has made the call and the call has resolved or rejected
Made(p, op) == calls[p].op = op /\ calls[p].pc = "done"

\* in this step caller p calls a method
Calls(p) == ~InFlight(calls[p]) /\ calls'[p] # calls[p]

\* in this step the call of caller p resolves or rejects
Completes(p, op) ==
  calls'[p] # calls[p] /\ calls'[p].op = op /\ calls'[p].pc = "done"

\* the database as it was when the call that completes in this step was
\* made
Before(p) == IF InFlight(calls[p]) THEN calls[p].before ELSE db

\* the request of the write call that caller p made right before the
\* dumpTable call that completes in this step, or <<>>
WrittenBefore(p) ==
  IF InFlight(calls[p]) THEN calls[p].after
  ELSE IF calls[p].op = "write" THEN calls[p].data
  ELSE <<>>

(***************************************************************************)
(* Properties.                                                             *)
(***************************************************************************)
\* C1: round trip.  When write has been called with rows that fit the
\* schema of a registered table and dumpTable of that table is called next,
\* dumpTable succeeds and returns every written row with the same keys and
\* values.
C1_RoundTrip ==
  [][\A p \in Callers :
       (/\ conn = "open"
        /\ Completes(p, "dumpTable")
        /\ Len(WrittenBefore(p)) = 1
        /\ RequestFits(Before(p), WrittenBefore(p))
        /\ calls'[p].table = WrittenBefore(p)[1].table)
       => (/\ calls'[p].result = "ok"
           /\ \A j \in DOMAIN WrittenBefore(p)[1].rows :
                \E r \in calls'[p].out :
                  WithoutHash(r) = WrittenBefore(p)[1].rows[j])]_vars

\* the row is stored exactly once in the table (by its primary key)
StoredOnce(d, table, row) ==
  Cardinality({i \in DOMAIN d[addTableSuffix(table)].rows :
                 d[addTableSuffix(table)].rows[i][PkCol] = hsh(row)["_hash"]}) = 1

\* C2: idempotent write.  Every write of a request that fits, the first
\* one and each repetition alike, succeeds without an aggregate error and
\* leaves each of its rows stored exactly once.
C2_IdempotentWrite ==
  \A p \in Callers :
    (/\ conn = "open"
     /\ Made(p, "write")
     /\ RequestFits(db, calls[p].data))
    => (/\ calls[p].result = "ok"
        /\ \A i \in DOMAIN calls[p].data :
             \A j \in DOMAIN calls[p].data[i].rows :
               StoredOnce(db, calls[p].data[i].table, calls[p].data[i].rows[j]))

\* C3: createOrExtendTable for a registered table with columns of which the
\* active columns are no prefix fails with SchemaIncompatible and changes
\* neither the registry nor the physical table.
C3_IncompatibleRejected ==
  [][\A p \in Callers :
       (/\ conn = "open"
        /\ Completes(p, "createOrExtendTable")
        /\ IsRegistered(Before(p), calls'[p].table)
        /\ ~IsPrefix(ActiveColumns(Before(p), calls'[p].table),
                     calls'[p].cfg.columns))
       => (calls'[p].result = "SchemaIncompatible" /\ db' = Before(p))]_vars

\* the versions of every table key are ordered by the strict prefix relation
LogIsPrefixOrdered ==
  \A table \in UserTables :
    \A i, j \in DOMAIN VersionsOf(db, table) :
      i < j => /\ IsPrefix(VersionColumns(VersionsOf(db, table)[i]),
                           VersionColumns(VersionsOf(db, table)[j]))
               /\ VersionColumns(VersionsOf(db, table)[i])
                    # VersionColumns(VersionsOf(db, table)[j])

\* C4: monotonic schema log.  For every table key, the column list of each
\* earlier registry version is a strict prefix of that of every later
\* version, and a step of createOrExtendTable only appends to the registry.
C4_MonotonicLog ==
  /\ []LogIsPrefixOrdered
  /\ [][\A p \in Callers :
          (calls'[p] # calls[p] /\ calls'[p].op = "createOrExtendTable")
            => IsPrefix(db[RegistryTbl].rows, db'[RegistryTbl].rows)]_vars

\* C5: createOrExtendTable with the config that is already active succeeds,
\* inserts no registry version and issues no CREATE TABLE or ALTER TABLE.
C5_SameConfigNoOp ==
  [][\A p \in Callers :
       (/\ conn = "open"
        /\ Completes(p, "createOrExtendTable")
        /\ IsRegistered(Before(p), calls'[p].table)
        /\ ActiveColumns(Before(p), calls'[p].table) = calls'[p].cfg.columns)
       => (/\ calls'[p].result = "ok"
           /\ db' = Before(p)
           /\ calls'[p].stmts = <<>>)]_vars

\* C6: extension keeps rows readable.  createOrExtendTable with columns
\* that strictly extend the active columns succeeds and adds the new
\* columns to the physical table; and dumpTable of a registered table
\* succeeds and returns one row for every stored row.
C6_ExtensionKeepsRows ==
  /\ [][\A p \in Callers :
          (/\ conn = "open"
           /\ Completes(p, "createOrExtendTable")
           /\ IsRegistered(Before(p), calls'[p].table)
           /\ IsPrefix(ActiveColumns(Before(p), calls'[p].table),
                       calls'[p].cfg.columns)
           /\ Len(ActiveColumns(Before(p), calls'[p].table))
                < Len(calls'[p].cfg.columns))
          => (/\ calls'[p].result = "ok"
              /\ db'[addTableSuffix(calls'[p].table)].cols
                   = PhysCols(calls'[p].cfg)
              /\ Len(db'[addTableSuffix(calls'[p].table)].rows)
                   = Len(Before(p)[addTableSuffix(calls'[p].table)].rows))]_vars
  /\ [][\A p \in Callers :
          (/\ conn = "open"
           /\ Completes(p, "dumpTable")
           /\ IsRegistered(Before(p), calls'[p].table))
          => (/\ calls'[p].result = "ok"
              /\ Cardinality(calls'[p].out)
                   = Len(db[addTableSuffix(calls'[p].table)].rows))]_vars

\* C7: in write every row of every table is attempted, the call ends "ok"
\* or with one aggregate error that holds one message per failed row, and
\* it succeeds exactly when no row failed.
C7_AllRowsAttempted ==
  \A p \in Callers :
    (/\ conn = "open"
     /\ Made(p, "write")
     /\ RequestFits(db, calls[p].data))
    => (/\ calls[p].result \in {"ok", "AggregateWriteError"}
        /\ (calls[p].result = "ok" <=> calls[p].errs = <<>>)
        /\ Len(Inserts(calls[p].stmts)) = CountRows(calls[p].data))

\* the stored row has, in the column of the predicate, the value of the
\* predicate as the codec stores it
Matches(row, pred) ==
  row[addColumnSuffix(pred.col)] = SerializeValue(pred.val)

\* the rows that match every predicate of the filter
MatchingRows(rows, where) ==
  SelectRows(rows, [i \in DOMAIN rows |->
                      \A j \in DOMAIN where : Matches(rows[i], where[j])])

\* C10: readRows on a registered table with an equality filter over
\* existing columns succeeds and returns exactly the stored rows that match
\* every predicate; with no match it returns an empty table.
C10_ReadRowsFiltered ==
  [][\A p \in Callers :
       (/\ conn = "open"
        /\ Completes(p, "readRows")
        /\ IsRegistered(Before(p), calls'[p].table)
        /\ calls'[p].where # <<>>
        /\ \A j \in DOMAIN calls'[p].where :
             addColumnSuffix(calls'[p].where[j].col)
               \in Range(Before(p)[addTableSuffix(calls'[p].table)].cols))
       => (/\ calls'[p].result = "ok"
           /\ Cardinality(calls'[p].out)
                = Len(MatchingRows(db[addTableSuffix(calls'[p].table)].rows,
                                   calls'[p].where)))]_vars

\* the column keys of the active schema of a registered table
ActiveKeys(d, table) == {c.key : c \in Range(ActiveColumns(d, table))}

\* C11: readRows of an unregistered table fails with TableNotFound, readRows
\* of a registered table with a filter that names a column outside the
\* table's schema fails with ColumnNotFound, and in both cases no SELECT has
\* been executed on the table.
C11_ReadRowsErrors ==
  \A p \in Callers :
    (conn = "open" /\ Made(p, "readRows"))
    => /\ ~IsRegistered(db, calls[p].table)
            => (calls[p].result = "TableNotFound" /\ calls[p].stmts = <<>>)
       /\ (/\ IsRegistered(db, calls[p].table)
           /\ ~(WhereColumns(calls[p].where)
                  \subseteq ActiveKeys(db, calls[p].table)))
            => (calls[p].result = "ColumnNotFound" /\ calls[p].stmts = <<>>)

\* C12: rowCount of a registered table succeeds and returns the number of
\* rows the table holds; rowCount of an unregistered table fails with
\* TableNotFound.
C12_RowCount ==
  \A p \in Callers :
    (conn = "open" /\ Made(p, "rowCount"))
    => IF IsRegistered(db, calls[p].table)
       THEN /\ calls[p].result = "ok"
            /\ calls[p].count = Len(db[addTableSuffix(calls[p].table)].rows)
       ELSE calls[p].result = "TableNotFound"

\* C13: when init has completed, the connection is open, the registry table
\* exists, and the registry table holds a row for the registry's own
\* config (key "tableCfgs").
C13_InitBootstraps ==
  \A p \in Callers :
    (Made(p, "init") /\ calls[p].result = "ok")
    => /\ conn = "open"
       /\ isOpenFlag
       /\ db[RegistryTbl].exists
       /\ \E i \in DOMAIN db[RegistryTbl].rows :
            VersionKey(db[RegistryTbl].rows[i]) = tableCfgsTableCfg.key

\* the statements of an init call that has run all of its steps: the
\* registry table is created, the config of the revisions table inserted
\* and the revisions table created
InitStatements ==
  <<Stmt("CREATE", RegistryTbl), Stmt("INSERT_CFG", RegistryTbl),
    Stmt("CREATE", addTableSuffix(revisionsTableCfg.key))>>

\* C14: readiness is a one-shot gate.  The gate is unresolved after
\* construction; it becomes resolved only in the step in which an init call
\* completes that has opened the connection, created the registry table and
\* initialised the revisions table; it is resolved whenever an init call
\* has completed; and once resolved it stays resolved under every later
\* operation, close and a further init included.
C14_ReadyOneShot ==
  /\ []((\A p \in Callers : calls[p].op = "new") => ~ready)
  /\ [](\A p \in Callers :
          (Made(p, "init") /\ calls[p].result = "ok") => ready)
  /\ [][(~ready /\ ready')
          => \E p \in Callers :
               /\ Completes(p, "init")
               /\ calls[p].pc = "awaitRevisions"
               /\ calls'[p].result = "ok"
               /\ calls'[p].stmts = InitStatements]_vars
  /\ [][ready => ready']_vars

\* the gate is still resolved after the facade has been closed and while a
\* further init is in flight
C14_Witness ==
  /\ ready
  /\ conn = "open"
  /\ \E p \in Callers : Made(p, "close") /\ calls[p].result = "ok"
  /\ \E p \in Callers : calls[p].op = "init" /\ InFlight(calls[p])

\* the data operations of the facade
DataOps == {"createOrExtendTable", "write", "readRows", "dumpTable", "rowCount"}

\* C15: a data operation called while the readiness gate is unresolved
\* fails with NotReady, has executed no statement and has changed nothing.
C15_NotReadyBeforeInit ==
  [][\A p \in Callers :
       (~ready /\ Calls(p) /\ calls'[p].op \in DataOps)
       => /\ calls'[p].pc = "done"
          /\ calls'[p].result = "NotReady"
          /\ calls'[p].stmts = <<>>
          /\ db' = db]_vars

\* C16: no interleaving.  Whenever a call of one caller executes a step
\* (its first read included), no call of another caller is in flight: all
\* statements of one call execute before any statement of the other.
C16_NoInterleaving ==
  [][\A p \in Callers :
       (calls'[p] # calls[p] /\ calls'[p].op \in DataOps)
         => \A q \in Callers \ {p} :
              ~(InFlight(calls[q]) /\ calls[q].op \in DataOps)]_vars

\* C17: in every state, the states between the statements of
\* createOrExtendTable included, every physical column of an existing user
\* table is a column of the active registered config of that table.
C17_PhysicalWithinActive ==
  \A table \in UserTables :
    db[addTableSuffix(table)].exists
      => /\ VersionsOf(db, table) # <<>>
         /\ Range(db[addTableSuffix(table)].cols)
              \subseteq {addColumnSuffix(k) : k \in ActiveKeys(db, table)}

\* the physical table of the config exists and has every column of it
PhysicallyComplete(d, cfg) ==
  /\ d[addTableSuffix(cfg.key)].exists
  /\ Range(PhysCols(cfg)) \subseteq Range(d[addTableSuffix(cfg.key)].cols)

\* the number of columns of the config the physical table has
PresentColumns(d, cfg) ==
  Cardinality(Range(PhysCols(cfg)) \cap Range(d[addTableSuffix(cfg.key)].cols))

\* C18: migration is retryable.  When the active registered config of a
\* table is registered but the physical table lacks columns of it (the
\* earlier call ended after the registry insert), a further
\* createOrExtendTable call with that config completes the physical table
\* or at least adds one of the missing columns, so that retrying
\* converges.
C18_RetryConverges ==
  [][\A p \in Callers :
       (/\ conn = "open"
        /\ Completes(p, "createOrExtendTable")
        /\ VersionsOf(Before(p), calls'[p].table) # <<>>
        /\ ActiveColumns(Before(p), calls'[p].table) = calls'[p].cfg.columns
        /\ ~PhysicallyComplete(Before(p), calls'[p].cfg))
       => (\/ PhysicallyComplete(db', calls'[p].cfg)
           \/ PresentColumns(db', calls'[p].cfg)
                > PresentColumns(Before(p), calls'[p].cfg))]_vars

\* C19: codec round trip.  For every column of the config whose key holds,
\* in the written row, a non-null value of the column's declared type and
\* is read back, the decoded row holds the same value under the same key;
\* a boolean is stored as 0 or 1 and a json or jsonArray value as its
\* serialized text.
C19_CodecRoundTrip ==
  codec.stage = "decoded"
  => \A c \in Range(codec.cfg.columns) :
       (/\ c.key \in DOMAIN codec.row
        /\ codec.row[c.key] # NULL
        /\ codec.row[c.key] \in ValuesOfType(c.type)
        /\ addColumnSuffix(c.key) \in Range(codec.cols))
         => /\ c.key \in DOMAIN codec.decoded[1]
            /\ codec.decoded[1][c.key] = codec.row[c.key]
            /\ c.type = "boolean"
                 => codec.stored[1][addColumnSuffix(c.key)] \in {Num(0), Num(1)}
            /\ c.type \in {"json", "jsonArray"}
                 => codec.stored[1][addColumnSuffix(c.key)] = JText(codec.row[c.key])

\* a row with a value of every type, the falsy ones among them, has been
\* serialized, read back with all columns and decoded
C19_Witness ==
  /\ codec.stage = "decoded"
  /\ codec.cols = PhysCols(CodecCfg)
  /\ codec.row = [title |-> Str(""), count |-> Num(0), done |-> Bool(FALSE),
                  meta |-> Obj("{k:1}"), tags |-> Obj("[0]")]

\* C20: sparse decoding.  No key of a decoded row holds null, every key of
\* a decoded row is a column key of the config, and a column that is NULL
\* in the row object or missing from it has no key in the decoded row.
C20_SparseDecoding ==
  codec.stage = "decoded"
  => \A i \in DOMAIN codec.decoded :
       /\ \A k \in DOMAIN codec.decoded[i] :
            /\ codec.decoded[i][k] # NULL
            /\ k \in CfgKeys(codec.cfg)
       /\ \A k \in CfgKeys(codec.cfg) :
            (\/ addColumnSuffix(k) \notin DOMAIN codec.stored[i]
             \/ codec.stored[i][addColumnSuffix(k)] = NULL)
              => k \notin DOMAIN codec.decoded[i]

\* C21: with a column whose declared type is none of string, number,
\* boolean, json and jsonArray, encoding a row fails with
\* UnsupportedColumnType and so does decoding, whatever the column holds:
\* the row never gets past _serializeRow.
C21_UnsupportedTypeRejected ==
  (codec.cfg = OddCfg /\ codec.stage # "row")
  => (codec.stage = "threw" /\ codec.err = "UnsupportedColumnType")


\* C22: the text of a statement depends only on identifiers derived from
\* the schema: two statements of the same kind on the same table with the
\* same column keys have the same text, whatever values the caller
\* supplied, and differ only in their parameter lists.
C22_TextFromSchemaOnly ==
  [][(sql.kind = sql'.kind /\ sql.table = sql'.table /\ sql.keys = sql'.keys)
       => sql'.text = sql.text]_vars

\* C24: NodeSQLite rejects lifecycle misuse without changing state: open on
\* an open instance throws 'Database is already open', close on an instance
\* that is not open throws 'Database is not open', and after either
\* isOpen() and getPath() return what they returned before the call.
C24_LifecycleMisuse ==
  /\ (node.op = "open" /\ node.before.open)
       => /\ node.err = "Database is already open"
          /\ NodeIsOpen(node) = node.before.open
          /\ NodeGetPath(node) = node.before.path
  /\ (node.op = "close" /\ ~node.before.open)
       => /\ node.err = "Database is not open"
          /\ NodeIsOpen(node) = node.before.open
          /\ NodeGetPath(node) = node.before.path

\* an open instance that holds a row rejected a second open
C24_Witness ==
  /\ node.op = "open"
  /\ node.before.open
  /\ node.before.path = ":memory:"
  /\ node.rows = {1}
  /\ node.err = "Database is already open"

\* C25: after any sequence of open and close calls, including an open whose
\* database constructor throws, getPath() is non-null exactly when isOpen()
\* is true, and null whenever the instance is not open.
C25_PathIffOpen ==
  (NodeGetPath(node) # "null") <=> NodeIsOpen(node)

\* C26: on an instance that is not open, execute, query, queryOne, prepare
\* and transaction each throw 'Database is not open' without running any
\* statement, and transaction does not call the function handed to it.
C26_NotOpenRejected ==
  (node.op \in {"execute", "query", "queryOne", "prepare", "transaction"}
     /\ ~node.before.open)
    => /\ node.err = "Database is not open"
       /\ node.log = <<>>
       /\ node.fnOutcome = "not called"
       /\ node.value = ""

\* transaction was called on a closed instance with a function that inserts
C26_Witness ==
  /\ node.op = "transaction"
  /\ ~node.before.open
  /\ node.fn.steps # <<>>
  /\ node.before.path = "null"
  /\ node.err = "Database is not open"

\* the function's calls are statements on the data: it neither ends the
\* transaction opened for it nor closes the instance
StatementsOnData(fn) ==
  \A i \in DOMAIN fn.steps : fn.steps[i].s = "INSERT"

InsertedBy(fn) == {fn.steps[i].r : i \in DOMAIN fn.steps}

\* how often the statement is in the log, and how often the function
\* issues it at most: once for each such call, and a nested transaction
\* call issues one BEGIN TRANSACTION and one COMMIT, and ROLLBACK where
\* its COMMIT fails
TimesIssued(log, stmt) == Cardinality({i \in DOMAIN log : log[i] = stmt})

IssuedByFn(fn, stmt) ==
  Cardinality({i \in DOMAIN fn.steps :
                 fn.steps[i] \in {stmt, Step("transaction")}})

\* C27: when the function handed to transaction returns normally, the
\* statements issued are BEGIN TRANSACTION, the function's statements in
\* their order, then COMMIT; transaction issues no ROLLBACK, the function's
\* changes are persisted, and transaction returns the function's return
\* value.  This is stated for every function that returns, whatever it
\* called.
C27_CommitOnReturn ==
  (node.op = "transaction" /\ node.fnOutcome = "returned")
    => /\ node.log[1] = Step("BEGIN TRANSACTION")
       /\ node.log[Len(node.log)] = Step("COMMIT")
       /\ StatementsOnData(node.fn)
            => node.log = <<Step("BEGIN TRANSACTION")>> \o node.fn.steps
                            \o <<Step("COMMIT")>>
       /\ TimesIssued(node.log, Step("ROLLBACK"))
            <= IssuedByFn(node.fn, Step("ROLLBACK"))
       /\ node.err = ""
       /\ node.value = "v"
       /\ ~node.inTx
       /\ node.rows = node.committed
       /\ StatementsOnData(node.fn)
            => node.committed = node.before.rows \cup InsertedBy(node.fn)

\* C28: when the function handed to transaction throws, transaction issues
\* ROLLBACK and no COMMIT, every change the function made since BEGIN
\* TRANSACTION is undone, so that the content is the content before the
\* call, and the function's error is thrown on to the caller.  This is
\* stated for every function that throws, whatever it called before.
C28_RollbackOnThrow ==
  (node.op = "transaction" /\ node.fnOutcome = "threw")
    => /\ node.log[Len(node.log)] = Step("ROLLBACK")
       /\ TimesIssued(node.log, Step("COMMIT"))
            <= IssuedByFn(node.fn, Step("COMMIT"))
       /\ ~node.inTx
       /\ node.rows = node.before.rows
       /\ node.committed = node.before.rows
       /\ node.err = node.fnErr
       /\ node.err # ""

\* C29: isOpen is true after init has run and false after close, and after
\* any sequence of init and close calls, close before any init and close
\* twice included, isOpen is true exactly when the connection created by
\* the last init is open.
C29_IsOpenTracksConnection ==
  /\ [](isOpenFlag <=> (conn = "open"))
  /\ [][\A p \in Callers :
          (Calls(p) /\ calls'[p].op = "init") => isOpenFlag']_vars
  /\ [][\A p \in Callers :
          (Calls(p) /\ calls'[p].op = "close") => ~isOpenFlag']_vars

\* close was called a second time after an init: the connection is closed
\* already and the call fails
C29_Witness ==
  /\ \E p \in Callers :
       Made(p, "close") /\ calls[p].result = "database is not open"
  /\ conn = "closed"
  /\ ~isOpenFlag

\* the request holds a row a second time: its second insert meets the
\* primary key of the first
RepeatsARow(data) ==
  \E i \in DOMAIN data : \E j, k \in DOMAIN data[i].rows :
    j < k /\ data[i].rows[j] = data[i].rows[k]

\* the rows and tables of the request that come after a repeated row
AfterRepeatedRow(data) ==
  {<<i, m>> \in {<<i, m>> \in (DOMAIN data) \X (1..3) : m \in DOMAIN data[i].rows} :
     \E h \in DOMAIN data : \E j, k \in DOMAIN data[h].rows :
       /\ j < k
       /\ data[h].rows[j] = data[h].rows[k]
       /\ (h < i \/ (h = i /\ k < m))}

\* C30: in write a primary-key collision on one row affects only that row:
\* every row after it in the same table, and every row of the tables after
\* it, is still attempted and, being new, stored, and one insert is issued
\* for each row of the request.
C30_CollisionAffectsOneRow ==
  \A p \in Callers :
    (/\ conn = "open"
     /\ Made(p, "write")
     /\ RequestFits(db, calls[p].data)
     /\ RepeatsARow(calls[p].data))
    => (/\ Len(Inserts(calls[p].stmts)) = CountRows(calls[p].data)
        /\ \A e \in AfterRepeatedRow(calls[p].data) :
             StoredOnce(db, calls[p].data[e[1]].table,
                        calls[p].data[e[1]].rows[e[2]]))

\* C31: when createOrExtendTable extends a table, the new config version is
\* inserted into the registry before the first ADD COLUMN statement, and
\* exactly one ADD COLUMN statement is issued for each column of the new
\* config at an index at or beyond the old column count, in the declared
\* order, and none for a column that exists already.
C31_ExtendStatements ==
  [][\A p \in Callers :
       (/\ conn = "open"
        /\ Completes(p, "createOrExtendTable")
        /\ IsRegistered(Before(p), calls'[p].table)
        /\ IsPrefix(ActiveColumns(Before(p), calls'[p].table),
                    calls'[p].cfg.columns)
        /\ Len(ActiveColumns(Before(p), calls'[p].table))
             < Len(calls'[p].cfg.columns))
       => LET old == Len(ActiveColumns(Before(p), calls'[p].table))
              ptbl == addTableSuffix(calls'[p].table)
              stmts == calls'[p].stmts
          IN /\ Len(stmts) = 1 + Len(calls'[p].cfg.columns) - old
             /\ stmts[1] = Stmt("INSERT_CFG", RegistryTbl)
             /\ \A i \in 2..Len(stmts) : stmts[i] = Stmt("ALTER", ptbl)
             /\ db'[ptbl].cols
                  = Before(p)[ptbl].cols
                      \o SubSeq(PhysCols(calls'[p].cfg), old + 1,
                                Len(calls'[p].cfg.columns))]_vars

\* C32: readRows on a registered table with an empty filter does not fail:
\* it returns a table that holds all rows of the table, which is an empty
\* table when the table has no rows.
C32_EmptyFilterReadsAll ==
  \A p \in Callers :
    (/\ conn = "open"
     /\ Made(p, "readRows")
     /\ IsRegistered(db, calls[p].table)
     /\ calls[p].where = <<>>)
    => (/\ calls[p].result = "ok"
        /\ Cardinality(calls[p].out)
             = Len(db[addTableSuffix(calls[p].table)].rows))

\* C33: a facade instance has at most one storage connection open at any
\* time: whatever init, close, execute and data operations were called, the
\* number of connections it has opened and not closed is at most 1.
C33_OneConnection == opened <= 1

\* C34: when the function given to transaction throws an error, transaction
\* throws that same error, whatever the function did before (statements, a
\* COMMIT or ROLLBACK of its own, a nested transaction call, closing the
\* database); and once the function was called, no transaction is active
\* when transaction returns or throws.
C34_SameErrorNoTransaction ==
  (node.op = "transaction" /\ node.fnOutcome # "not called")
    => /\ ~node.inTx
       /\ node.fnOutcome = "threw" => node.err = node.fnErr

====
